---------------------------- MODULE Spec2Model ----------------------------
(***************************************************************************)
(* EXPLAINIUM knowledge extraction engine.                                 *)
(*                                                                         *)
(* Two variants of app/extraction/knowledge.py are modelled:               *)
(*   PH-1/app/extraction/knowledge.py    the scored recognizer             *)
(*   Phase1/app/extraction/knowledge.py  the fixed-confidence recognizer   *)
(*                                                                         *)
(* A text is a sequence of characters, a character a one-symbol string.    *)
(* Offsets are Python's: 0-based, a span [start, end) is the characters    *)
(* start+1 .. end of the sequence.  Patterns are regular expression trees  *)
(* evaluated by a backtracking matcher with the priorities of Python's re. *)
(* Confidences of the recognizer are hundredths (0.7 is 70), confidences   *)
(* of the classifier are 180ths (0.3 is 54, 0.95 is 171).                  *)
(*                                                                         *)
(* Of the PH-1 server, the upload handlers of app/main.py with the rows    *)
(* they commit through app/db/crud.py, and chunk_text of                   *)
(* app/utils/helpers.py, are modelled as well.                             *)
(***************************************************************************)
EXTENDS Integers, Sequences, FiniteSets, TLC

VARIABLES
    text,           \* the text passed to the calls
    isNone,         \* TRUE when the caller passes None instead of a string
    max_phrases,    \* the max_phrases passed to extract_key_phrases
    pc,             \* position of the caller: "start", or the call that ended last
    candidates,     \* PH-1 extract_entities: its list when the pattern loops end (line 101)
    entities,       \* result of extract_entities
    relationships,  \* result of extract_relationships
    categories,     \* result of classify_content
    phrases,        \* result of extract_key_phrases
    structure,      \* result of analyze_document_structure
    raised,         \* exception a call ended with, "" when it returned
    hashSeed,       \* hash seed of the running process: decides the order its sets iterate in
    other,          \* an earlier call of the caller, kept for comparison: [call, result]
    badPattern,     \* 0, or the place in the entity catalog of a pattern that does not compile
    threads,        \* the calls running in the threads of the server: their arguments and locals
    request,        \* the upload request of the PH-1 server: its file, handler and response
    db,             \* the rows the PH-1 server has committed: documents, entities, categories
    chunker         \* chunk_text: its arguments and the locals of its loop

vars == <<text, isNone, max_phrases, pc, candidates, entities, relationships,
          categories, phrases, structure, raised, hashSeed, other, badPattern,
          threads, request, db, chunker>>

-----------------------------------------------------------------------------
(* Characters: str.isupper, str.lower, \w, \d, \s *)

Uppers == <<"A","B","C","D","E","F","G","H","I","J","K","L","M",
            "N","O","P","Q","R","S","T","U","V","W","X","Y","Z">>
Lowers == <<"a","b","c","d","e","f","g","h","i","j","k","l","m",
            "n","o","p","q","r","s","t","u","v","w","x","y","z">>
UpperSet == {Uppers[k] : k \in 1..26}
LowerSet == {Lowers[k] : k \in 1..26}
DigitSet == {"0","1","2","3","4","5","6","7","8","9"}
SpaceSet == {" ", "\n", "\t"}
WordSet  == UpperSet \cup LowerSet \cup DigitSet \cup {"_"}

LowerOf == [c \in UpperSet |-> Lowers[CHOOSE k \in 1..26 : Uppers[k] = c]]
UpperOf == [c \in LowerSet |-> Uppers[CHOOSE k \in 1..26 : Lowers[k] = c]]

LowerChar(c) == IF c \in UpperSet THEN LowerOf[c] ELSE c
UpperChar(c) == IF c \in LowerSet THEN UpperOf[c] ELSE c

\* str.lower()
Lower(s) == [k \in 1..Len(s) |-> LowerChar(s[k])]

\* str.strip(): leading and trailing whitespace removed
RECURSIVE LStrip(_)
LStrip(s) == IF Len(s) > 0 /\ s[1] \in SpaceSet THEN LStrip(Tail(s)) ELSE s
RECURSIVE RStrip(_)
RStrip(s) ==
    IF Len(s) > 0 /\ s[Len(s)] \in SpaceSet
    THEN RStrip(SubSeq(s, 1, Len(s) - 1)) ELSE s
Strip(s) == RStrip(LStrip(s))

\* text[a:b] for 0 <= a, b
Slice(s, a, b) == SubSeq(s, a + 1, IF b > Len(s) THEN Len(s) ELSE b)

\* needle in haystack (str.__contains__)
Contains(hay, needle) ==
    \E k \in 0..(Len(hay) - Len(needle)) : SubSeq(hay, k + 1, k + Len(needle)) = needle

Min(a, b) == IF a < b THEN a ELSE b
Max(a, b) == IF a > b THEN a ELSE b
Abs(a) == IF a < 0 THEN -a ELSE a

-----------------------------------------------------------------------------
(* Regular expressions.  A node is one of                                   *)
(*   Lit(s)        the characters of s                                      *)
(*   Cls(set)      one character of the set                                 *)
(*   WB            \b                                                       *)
(*   BOL           ^                                                        *)
(*   Cat(rs)       the nodes of rs one after the other                      *)
(*   Alt(rs)       the first node of rs that lets the rest match            *)
(*   Rep(r,lo,hi)  r{lo,hi}, greedy; hi < 0 is no upper limit               *)
(* Match tries the nodes of a stack at offset i and returns the end offset  *)
(* of the match the backtracking search of re finds first, or NoMatch.      *)

NoMatch == -1

Lit(s) == [t |-> "lit", s |-> s]
Cls(c) == [t |-> "cls", c |-> c]
WB == [t |-> "wb"]
BOL == [t |-> "bol"]
Cat(rs) == [t |-> "cat", rs |-> rs]
Alt(rs) == [t |-> "alt", rs |-> rs]
Rep(r, lo, hi) == [t |-> "rep", r |-> r, lo |-> lo, hi |-> hi]
Opt(r) == Rep(r, 0, 1)
Star(r) == Rep(r, 0, -1)
Plus(r) == Rep(r, 1, -1)

\* \b: exactly one of the characters before and after offset i is a word character
WordBoundary(t, i) ==
    LET before == i >= 1 /\ t[i] \in WordSet
        after == i < Len(t) /\ t[i + 1] \in WordSet
    IN before # after

CharEq(c, d, ic) == c = d \/ (ic /\ LowerChar(c) = LowerChar(d))

LitAt(s, i, t, ic) ==
    /\ i + Len(s) <= Len(t)
    /\ \A k \in 1..Len(s) : CharEq(t[i + k], s[k], ic)

ClsMatch(c, set, ic) ==
    c \in set \/ (ic /\ (LowerChar(c) \in set \/ UpperChar(c) \in set))

\* the longest run of characters of the set from offset i, at most cap (cap < 0: no limit)
RunLen(set, i, t, ic, cap) ==
    LET n == IF cap < 0 THEN Len(t) - i ELSE Min(cap, Len(t) - i)
        runs == {k \in 0..n : \A j \in 1..k : ClsMatch(t[i + j], set, ic)}
    IN CHOOSE k \in runs : \A m \in runs : m <= k

RECURSIVE Match(_, _, _, _)
RECURSIVE MatchAlt(_, _, _, _, _, _)
RECURSIVE MatchRun(_, _, _, _, _, _)
Match(stack, i, t, ic) ==
    IF Len(stack) = 0 THEN i
    ELSE
      LET r == Head(stack)
          rest == Tail(stack)
      IN CASE r.t = "lit" ->
                IF LitAt(r.s, i, t, ic) THEN Match(rest, i + Len(r.s), t, ic) ELSE NoMatch
           [] r.t = "cls" ->
                IF i < Len(t) /\ ClsMatch(t[i + 1], r.c, ic)
                THEN Match(rest, i + 1, t, ic) ELSE NoMatch
           [] r.t = "wb" ->
                IF WordBoundary(t, i) THEN Match(rest, i, t, ic) ELSE NoMatch
           [] r.t = "bol" ->
                IF i = 0 THEN Match(rest, i, t, ic) ELSE NoMatch
           [] r.t = "cat" -> Match(r.rs \o rest, i, t, ic)
           [] r.t = "alt" -> MatchAlt(r.rs, 1, rest, i, t, ic)
           [] r.t = "rep" /\ r.r.t = "cls" ->
                \* a repeated single character: the longest run first, then shorter ones
                MatchRun(rest, i, RunLen(r.r.c, i, t, ic, r.hi), r.lo, t, ic)
           [] r.t = "rep" /\ r.r.t # "cls" ->
                \* one more repetition first, then none
                LET again == Rep(r.r, Max(0, r.lo - 1), IF r.hi < 0 THEN r.hi ELSE r.hi - 1)
                    more == IF r.hi # 0
                            THEN Match(<<r.r, again>> \o rest, i, t, ic)
                            ELSE NoMatch
                IN IF more # NoMatch THEN more
                   ELSE IF r.lo <= 0 THEN Match(rest, i, t, ic)
                   ELSE NoMatch
MatchAlt(rs, k, rest, i, t, ic) ==
    IF k > Len(rs) THEN NoMatch
    ELSE LET e == Match(<<rs[k]>> \o rest, i, t, ic)
         IN IF e # NoMatch THEN e ELSE MatchAlt(rs, k + 1, rest, i, t, ic)
MatchRun(rest, i, k, lo, t, ic) ==
    IF k < lo THEN NoMatch
    ELSE LET e == Match(rest, i + k, t, ic)
         IN IF e # NoMatch THEN e ELSE MatchRun(rest, i, k - 1, lo, t, ic)

\* re.finditer / re.findall: the matches from left to right, each search
\* starting where the previous match ended.  No pattern of the catalogs
\* matches the empty string.
RECURSIVE Scan(_, _, _, _, _)
Scan(pat, t, ic, pos, acc) ==
    LET starts == {p \in pos..Len(t) : Match(<<pat>>, p, t, ic) # NoMatch}
    IN IF starts = {} THEN acc
       ELSE LET s == CHOOSE p \in starts : \A q \in starts : p <= q
                e == Match(<<pat>>, s, t, ic)
            IN Scan(pat, t, ic, IF e = s THEN s + 1 ELSE e,
                    Append(acc, [start |-> s, end |-> e]))
FindIter(pat, t, ic) == Scan(pat, t, ic, 0, <<>>)

\* re.match(pattern, s): a match at offset 0
ReMatch(pat, s) == Match(<<pat>>, 0, s, FALSE) # NoMatch

-----------------------------------------------------------------------------
(* PH-1/app/extraction/knowledge.py: the scored recognizer *)

\* PH-1 extract_entities: entity_patterns (lines 49-76), in dict order
\* entity_patterns["ORGANIZATION"]
Patterns_ORGANIZATION ==
    << \* \bEXPLAINIUM\b
      Cat(<<WB, Lit(<<"E","X","P","L","A","I","N","I","U","M">>), WB>>),
      \* \b(?:Turku UAS|Turku University|Nokia|Microsoft|Google|Apple|Amazon|Meta|Tesla)\b
      Cat(<<WB, Alt(<<Lit(<<"T","u","r","k","u"," ","U","A","S">>),
        Lit(<<"T","u","r","k","u"," ","U","n","i","v","e","r","s","i","t","y">>),
        Lit(<<"N","o","k","i","a">>), Lit(<<"M","i","c","r","o","s","o","f","t">>),
        Lit(<<"G","o","o","g","l","e">>), Lit(<<"A","p","p","l","e">>),
        Lit(<<"A","m","a","z","o","n">>), Lit(<<"M","e","t","a">>),
        Lit(<<"T","e","s","l","a">>)>>), WB>>),
      \* \b[A-Z][a-z]+(?:\s+[A-Z][a-z]+)*\s+(?:Inc|Corp|Ltd|LLC|Group|Company|Organization|University|Institute)\b
      Cat(<<WB, Cls(UpperSet), Plus(Cls(LowerSet)), Star(Cat(<<Plus(Cls(SpaceSet)), Cls(UpperSet),
        Plus(Cls(LowerSet))>>)), Plus(Cls(SpaceSet)), Alt(<<Lit(<<"I","n","c">>),
        Lit(<<"C","o","r","p">>), Lit(<<"L","t","d">>), Lit(<<"L","L","C">>),
        Lit(<<"G","r","o","u","p">>), Lit(<<"C","o","m","p","a","n","y">>),
        Lit(<<"O","r","g","a","n","i","z","a","t","i","o","n">>),
        Lit(<<"U","n","i","v","e","r","s","i","t","y">>),
        Lit(<<"I","n","s","t","i","t","u","t","e">>)>>), WB>>) >>

\* entity_patterns["TECHNOLOGY"]
Patterns_TECHNOLOGY ==
    << \* \bNatural Language Processing\b
      Cat(<<WB,
        Lit(<<"N","a","t","u","r","a","l"," ","L","a","n","g","u","a","g","e"," ","P","r","o","c","e","s","s","i","n","g">>),
        WB>>),
      \* \b(?:Machine Learning|Artificial Intelligence|Computer Vision|OCR)\b
      Cat(<<WB, Alt(<<Lit(<<"M","a","c","h","i","n","e"," ","L","e","a","r","n","i","n","g">>),
        Lit(<<"A","r","t","i","f","i","c","i","a","l"," ","I","n","t","e","l","l","i","g","e","n","c","e">>),
        Lit(<<"C","o","m","p","u","t","e","r"," ","V","i","s","i","o","n">>),
        Lit(<<"O","C","R">>)>>), WB>>),
      \* \b(?:AI|ML|NLP|API|FastAPI|Python|PostgreSQL|SQLite)\b
      Cat(<<WB, Alt(<<Lit(<<"A","I">>), Lit(<<"M","L">>), Lit(<<"N","L","P">>), Lit(<<"A","P","I">>),
        Lit(<<"F","a","s","t","A","P","I">>), Lit(<<"P","y","t","h","o","n">>),
        Lit(<<"P","o","s","t","g","r","e","S","Q","L">>), Lit(<<"S","Q","L","i","t","e">>)>>), WB>>),
      \* \bPH-\d+\b
      Cat(<<WB, Lit(<<"P","H","-">>), Plus(Cls(DigitSet)), WB>>) >>

\* entity_patterns["LOCATION"]
Patterns_LOCATION ==
    << \* \b(?:Finland|Helsinki|Turku|Stockholm|Copenhagen|Oslo|London|Berlin|Paris|New York|California|Europe|Nordic)\b
      Cat(<<WB, Alt(<<Lit(<<"F","i","n","l","a","n","d">>), Lit(<<"H","e","l","s","i","n","k","i">>),
        Lit(<<"T","u","r","k","u">>), Lit(<<"S","t","o","c","k","h","o","l","m">>),
        Lit(<<"C","o","p","e","n","h","a","g","e","n">>), Lit(<<"O","s","l","o">>),
        Lit(<<"L","o","n","d","o","n">>), Lit(<<"B","e","r","l","i","n">>),
        Lit(<<"P","a","r","i","s">>), Lit(<<"N","e","w"," ","Y","o","r","k">>),
        Lit(<<"C","a","l","i","f","o","r","n","i","a">>), Lit(<<"E","u","r","o","p","e">>),
        Lit(<<"N","o","r","d","i","c">>)>>), WB>>) >>

\* entity_patterns["DATE"]
Patterns_DATE ==
    << \* \b(?:2024|2023|2025|2022)\b
      Cat(<<WB, Lit(<<"2","0","2">>), Cls({"4", "3", "5", "2"}), WB>>),
      \* \b(?:January|February|March|April|May|June|July|August|September|October|November|December)\s+\d{1,2},?\s+\d{4}\b
      Cat(<<WB, Alt(<<Lit(<<"J","a","n","u","a","r","y">>), Lit(<<"F","e","b","r","u","a","r","y">>),
        Lit(<<"M","a","r","c","h">>), Lit(<<"A","p","r","i","l">>), Lit(<<"M","a","y">>),
        Lit(<<"J","u","n","e">>), Lit(<<"J","u","l","y">>), Lit(<<"A","u","g","u","s","t">>),
        Lit(<<"S","e","p","t","e","m","b","e","r">>), Lit(<<"O","c","t","o","b","e","r">>),
        Lit(<<"N","o","v","e","m","b","e","r">>), Lit(<<"D","e","c","e","m","b","e","r">>)>>),
        Plus(Cls(SpaceSet)), Rep(Cls(DigitSet), 1, 2), Opt(Lit(<<",">>)), Plus(Cls(SpaceSet)),
        Rep(Cls(DigitSet), 4, 4), WB>>),
      \* \b\d{1,2}[/-]\d{1,2}[/-]\d{2,4}\b
      Cat(<<WB, Rep(Cls(DigitSet), 1, 2), Cls({"/", "-"}), Rep(Cls(DigitSet), 1, 2), Cls({"/", "-"}),
        Rep(Cls(DigitSet), 2, 4), WB>>) >>

\* entity_patterns["EQUIPMENT"]
Patterns_EQUIPMENT ==
    << \* \b(?:Model number|Version):\s*[A-Z0-9.-]+\b
      Cat(<<WB, Alt(<<Lit(<<"M","o","d","e","l"," ","n","u","m","b","e","r">>),
        Lit(<<"V","e","r","s","i","o","n">>)>>), Lit(<<":">>), Star(Cls(SpaceSet)),
        Plus(Cls(UpperSet \cup DigitSet \cup {".", "-"})), WB>>),
      \* \bversion\s+\d+\.\d+(?:\.\d+)?\b
      Cat(<<WB, Lit(<<"v","e","r","s","i","o","n">>), Plus(Cls(SpaceSet)), Plus(Cls(DigitSet)),
        Lit(<<".">>), Plus(Cls(DigitSet)), Opt(Cat(<<Lit(<<".">>), Plus(Cls(DigitSet))>>)), WB>>) >>

\* entity_patterns["PROCESS"]
Patterns_PROCESS ==
    << \* \b(?:text extraction|knowledge extraction|document processing|compliance checking|document management)\b
      Cat(<<WB, Alt(<<Lit(<<"t","e","x","t"," ","e","x","t","r","a","c","t","i","o","n">>),
        Lit(<<"k","n","o","w","l","e","d","g","e"," ","e","x","t","r","a","c","t","i","o","n">>),
        Lit(<<"d","o","c","u","m","e","n","t"," ","p","r","o","c","e","s","s","i","n","g">>),
        Lit(<<"c","o","m","p","l","i","a","n","c","e"," ","c","h","e","c","k","i","n","g">>),
        Lit(<<"d","o","c","u","m","e","n","t"," ","m","a","n","a","g","e","m","e","n","t">>)>>),
        WB>>) >>

entity_patterns ==
    << [label |-> "ORGANIZATION", patterns |-> Patterns_ORGANIZATION],
       [label |-> "TECHNOLOGY", patterns |-> Patterns_TECHNOLOGY],
       [label |-> "LOCATION", patterns |-> Patterns_LOCATION],
       [label |-> "DATE", patterns |-> Patterns_DATE],
       [label |-> "EQUIPMENT", patterns |-> Patterns_EQUIPMENT],
       [label |-> "PROCESS", patterns |-> Patterns_PROCESS] >>


\* sequences of sequences flattened in order
RECURSIVE Flatten(_)
Flatten(ss) == IF Len(ss) = 0 THEN <<>> ELSE Head(ss) \o Flatten(Tail(ss))

\* calculate_entity_confidence: keyword lists of the label tests, the year test
tech_keywords == <<<<"p","r","o","c","e","s","s","i","n","g">>, <<"l","e","a","r","n","i","n","g">>, <<"i","n","t","e","l","l","i","g","e","n","c","e">>, <<"v","i","s","i","o","n">>>>
org_suffixes == <<<<"i","n","c">>, <<"c","o","r","p">>, <<"l","t","d">>, <<"u","n","i","v","e","r","s","i","t","y">>, <<"i","n","s","t","i","t","u","t","e">>>>
common_words == {<<"t","h","e">>, <<"a","n","d">>, <<"o","r">>, <<"b","u","t">>, <<"i","n">>, <<"o","n">>, <<"a","t">>, <<"t","o">>, <<"f","o","r">>, <<"o","f">>, <<"w","i","t","h">>, <<"b","y">>}
\* \b\d{4}\b
year_pattern == Cat(<<WB, Rep(Cls(DigitSet), 4, 4), WB>>)

AnyIn(words, s) == \E k \in 1..Len(words) : Contains(s, words[k])

\* calculate_entity_confidence returning the sum as it is, not clamped to [0, 1]
calculate_entity_confidence_NoClamp(mtext, label, full_text, start, end) ==
    (IF Len(mtext) > 10 THEN 80 ELSE IF Len(mtext) < 4 THEN 50 ELSE 70)
    + (IF mtext[1] \in UpperSet THEN 10 ELSE 0)
    + (IF label = "TECHNOLOGY" /\ AnyIn(tech_keywords, Lower(mtext)) THEN 15
       ELSE IF label = "ORGANIZATION" /\ AnyIn(org_suffixes, Lower(mtext)) THEN 15
       ELSE IF label = "DATE" /\ ReMatch(year_pattern, mtext) THEN 10 ELSE 0)
    - (IF Lower(mtext) \in common_words THEN 40 ELSE 0)

\* the score without the test of the DATE label
calculate_entity_confidence_NoYear(mtext, label, full_text, start, end) ==
    Max(0, Min(100,
        (IF Len(mtext) > 10 THEN 80 ELSE IF Len(mtext) < 4 THEN 50 ELSE 70)
        + (IF mtext[1] \in UpperSet THEN 10 ELSE 0)
        + (IF label = "TECHNOLOGY" /\ AnyIn(tech_keywords, Lower(mtext)) THEN 15
           ELSE IF label = "ORGANIZATION" /\ AnyIn(org_suffixes, Lower(mtext)) THEN 15 ELSE 0)
        - (IF Lower(mtext) \in common_words THEN 40 ELSE 0)))

\* the score without the penalty of the texts shorter than 4 characters
calculate_entity_confidence_NoShortPenalty(mtext, label, full_text, start, end) ==
    Max(0, Min(100,
        (IF Len(mtext) > 10 THEN 80 ELSE 70)
        + (IF mtext[1] \in UpperSet THEN 10 ELSE 0)
        + (IF label = "TECHNOLOGY" /\ AnyIn(tech_keywords, Lower(mtext)) THEN 15
           ELSE IF label = "ORGANIZATION" /\ AnyIn(org_suffixes, Lower(mtext)) THEN 15
           ELSE IF label = "DATE" /\ ReMatch(year_pattern, mtext) THEN 10 ELSE 0)
        - (IF Lower(mtext) \in common_words THEN 40 ELSE 0)))

\* Confidence in hundredths.  The float sums of the code differ from these
\* exact values only below 0.7 and for "first character uppercase and a text
\* beginning with four digits", which no text satisfies.
calculate_entity_confidence(mtext, label, full_text, start, end) ==
    LET c1 == IF Len(mtext) > 10 THEN 70 + 10
              ELSE IF Len(mtext) < 4 THEN 70 - 20 ELSE 70
        c2 == IF mtext[1] \in UpperSet THEN c1 + 10 ELSE c1
        c3 == IF label = "TECHNOLOGY" /\ AnyIn(tech_keywords, Lower(mtext)) THEN c2 + 15
              ELSE IF label = "ORGANIZATION" /\ AnyIn(org_suffixes, Lower(mtext)) THEN c2 + 15
              ELSE IF label = "DATE" /\ ReMatch(year_pattern, mtext) THEN c2 + 10
              ELSE c2
        c4 == IF Lower(mtext) \in common_words THEN c3 - 40 ELSE c3
    IN Max(0, Min(100, c4))

Entity(mtext, label, start, end, confidence) ==
    [text |-> mtext, label |-> label, start |-> start, end |-> end,
     confidence |-> confidence]

\* the body of the loop over the matches of one pattern (lines 82-100)
MatchCandidates(label, pattern, t) ==
    LET ms == FindIter(pattern, t, TRUE)
        cand(m) == LET matched_text == Strip(Slice(t, m.start, m.end))
                   IN IF Len(matched_text) < 2 THEN <<>>
                      ELSE LET confidence == calculate_entity_confidence(
                                   matched_text, label, t, m.start, m.end)
                           IN IF confidence >= 70
                              THEN <<Entity(matched_text, label, m.start, m.end, confidence)>>
                              ELSE <<>>
    IN Flatten([k \in 1..Len(ms) |-> cand(ms[k])])

\* the loops over labels and patterns (lines 79-81)
Candidates(t) ==
    Flatten([l \in 1..Len(entity_patterns) |->
        Flatten([p \in 1..Len(entity_patterns[l].patterns) |->
            MatchCandidates(entity_patterns[l].label, entity_patterns[l].patterns[p], t)])])
\* the first occurrence of each element, in order
RECURSIVE Distinct(_, _)
Distinct(s, acc) ==
    IF Len(s) = 0 THEN acc
    ELSE Distinct(Tail(s), IF \E k \in 1..Len(acc) : acc[k] = Head(s)
                           THEN acc ELSE Append(acc, Head(s)))

RemoveAt(s, k) == SubSeq(s, 1, k - 1) \o SubSeq(s, k + 1, Len(s))

\* The elements of s in the order number seed of their orders: seeds
\* 0 .. Len(s)! - 1 give every order.
RECURSIVE NthOrder(_, _)
NthOrder(s, seed) ==
    IF Len(s) = 0 THEN <<>>
    ELSE LET k == (seed % Len(s)) + 1
         IN <<s[k]>> \o NthOrder(RemoveAt(s, k), seed \div Len(s))

\* the elements listed without removing the repeated ones
ListOfSet_Repeated(s) == NthOrder(s, hashSeed)

\* list(set(...)): the distinct elements in the iteration order of the
\* set, which depends on the hashes of the strings, that is on the hash seed
\* of the process (PYTHONHASHSEED, random by default)
ListOfSet(s) == NthOrder(Distinct(s, <<>>), hashSeed)

\* the unique entities kept in a set and listed from it
remove_duplicate_entities_ViaSet(es) == ListOfSet(es)

DupKey(e) == <<Lower(e.text), e.start, e.end>>

RECURSIVE RemoveDupLoop(_, _, _)
RemoveDupLoop(es, seen, unique_entities) ==
    IF Len(es) = 0 THEN unique_entities
    ELSE LET key == DupKey(Head(es))
         IN IF key \notin seen
            THEN RemoveDupLoop(Tail(es), seen \cup {key}, Append(unique_entities, Head(es)))
            ELSE RemoveDupLoop(Tail(es), seen, unique_entities)
\* the last occurrence of each key kept instead of the first
remove_duplicate_entities_KeepLast(es) ==
    LET rev(q) == [k \in 1..Len(q) |-> q[Len(q) + 1 - k]]
    IN rev(RemoveDupLoop(rev(es), {}, <<>>))

remove_duplicate_entities(es) == RemoveDupLoop(es, {}, <<>>)

\* sorted(entities, key=lambda e: e.start): stable
RECURSIVE InsertByStart(_, _)
InsertByStart(sorted, e) ==
    IF Len(sorted) = 0 THEN <<e>>
    ELSE IF sorted[Len(sorted)].start <= e.start THEN Append(sorted, e)
    ELSE Append(InsertByStart(SubSeq(sorted, 1, Len(sorted) - 1), e), sorted[Len(sorted)])
RECURSIVE SortedByStart(_)
SortedByStart(es) ==
    IF Len(es) = 0 THEN <<>>
    ELSE InsertByStart(SortedByStart(SubSeq(es, 1, Len(es) - 1)), es[Len(es)])

\* FilterStep appending the overlapping candidate of higher confidence
\* instead of putting it in the place of the last entity
FilterStep_AppendWinner(filtered, current) ==
    LET last == filtered[Len(filtered)]
    IN IF current.start < last.end /\ current.confidence <= last.confidence
       THEN filtered
       ELSE Append(filtered, current)

\* FilterStep replacing the last entity also when the confidences are equal
FilterStep_ReplaceOnTie(filtered, current) ==
    LET last == filtered[Len(filtered)]
    IN IF current.start < last.end
       THEN IF current.confidence >= last.confidence
            THEN [filtered EXCEPT ![Len(filtered)] = current]
            ELSE filtered
       ELSE Append(filtered, current)

\* FilterStep dropping a candidate that starts where the last entity ends
FilterStep_AdjacentOverlaps(filtered, current) ==
    LET last == filtered[Len(filtered)]
    IN IF current.start <= last.end
       THEN IF current.confidence > last.confidence
            THEN [filtered EXCEPT ![Len(filtered)] = current]
            ELSE filtered
       ELSE Append(filtered, current)

\* one iteration of the loop of filter_overlapping_entities (lines 161-170)
FilterStep(filtered, current) ==
    LET last == filtered[Len(filtered)]
    IN IF current.start < last.end
       THEN IF current.confidence > last.confidence
            THEN [filtered EXCEPT ![Len(filtered)] = current]
            ELSE filtered
       ELSE Append(filtered, current)
RECURSIVE FilterLoop(_, _)
FilterLoop(filtered, rest) ==
    IF Len(rest) = 0 THEN filtered
    ELSE FilterLoop(FilterStep(filtered, Head(rest)), Tail(rest))
filter_overlapping_entities(es) ==
    IF Len(es) = 0 THEN es
    ELSE LET sorted_entities == SortedByStart(es)
         IN FilterLoop(<<sorted_entities[1]>>, Tail(sorted_entities))

\* lines 102-108, from the list the pattern loops built
ResolveCandidates(cands) ==
    filter_overlapping_entities(remove_duplicate_entities(cands))

extract_entities(t) == ResolveCandidates(Candidates(t))

-----------------------------------------------------------------------------
(* Phase1/app/extraction/knowledge.py: the fixed-confidence recognizer *)

\* Phase1 extract_entities: equipment_patterns (lines 54-58)
equipment_patterns ==
    << \* \b(?:pump|motor|valve|sensor|conveyor|robot|machine|equipment)\s*(?:#?\d+|[A-Z]\d+)?\b
      Cat(<<WB, Alt(<<Lit(<<"p","u","m","p">>), Lit(<<"m","o","t","o","r">>),
        Lit(<<"v","a","l","v","e">>), Lit(<<"s","e","n","s","o","r">>),
        Lit(<<"c","o","n","v","e","y","o","r">>), Lit(<<"r","o","b","o","t">>),
        Lit(<<"m","a","c","h","i","n","e">>), Lit(<<"e","q","u","i","p","m","e","n","t">>)>>),
        Star(Cls(SpaceSet)), Opt(Alt(<<Cat(<<Opt(Lit(<<"#">>)), Plus(Cls(DigitSet))>>),
        Cat(<<Cls(UpperSet), Plus(Cls(DigitSet))>>)>>)), WB>>),
      \* \b[A-Z]{2,4}-\d{2,6}\b
      Cat(<<WB, Rep(Cls(UpperSet), 2, 4), Lit(<<"-">>), Rep(Cls(DigitSet), 2, 6), WB>>),
      \* \b(?:Model|Part|Serial)\s*(?:No\.?|Number)?\s*:?\s*([A-Z0-9-]+)\b
      Cat(<<WB, Alt(<<Lit(<<"M","o","d","e","l">>), Lit(<<"P","a","r","t">>),
        Lit(<<"S","e","r","i","a","l">>)>>), Star(Cls(SpaceSet)), Opt(Cat(<<Lit(<<"N">>),
        Alt(<<Cat(<<Lit(<<"o">>), Opt(Lit(<<".">>))>>), Lit(<<"u","m","b","e","r">>)>>)>>)),
        Star(Cls(SpaceSet)), Opt(Lit(<<":">>)), Star(Cls(SpaceSet)),
        Plus(Cls(UpperSet \cup DigitSet \cup {"-"})), WB>>) >>

\* Phase1 extract_entities: safety_patterns (lines 72-76)
safety_patterns ==
    << \* \b(?:PPE|personal protective equipment|safety glasses|hard hat|gloves|respirator)\b
      Cat(<<WB, Alt(<<Lit(<<"P","P","E">>),
        Lit(<<"p","e","r","s","o","n","a","l"," ","p","r","o","t","e","c","t","i","v","e"," ","e","q","u","i","p","m","e","n","t">>),
        Lit(<<"s","a","f","e","t","y"," ","g","l","a","s","s","e","s">>),
        Lit(<<"h","a","r","d"," ","h","a","t">>), Lit(<<"g","l","o","v","e","s">>),
        Lit(<<"r","e","s","p","i","r","a","t","o","r">>)>>), WB>>),
      \* \b(?:hazard|danger|warning|caution|risk)\b
      Cat(<<WB, Alt(<<Lit(<<"h","a","z","a","r","d">>), Lit(<<"d","a","n","g","e","r">>),
        Lit(<<"w","a","r","n","i","n","g">>), Lit(<<"c","a","u","t","i","o","n">>),
        Lit(<<"r","i","s","k">>)>>), WB>>),
      \* \b(?:OSHA|safety procedure|lockout|tagout|LOTO)\b
      Cat(<<WB, Alt(<<Lit(<<"O","S","H","A">>),
        Lit(<<"s","a","f","e","t","y"," ","p","r","o","c","e","d","u","r","e">>),
        Lit(<<"l","o","c","k","o","u","t">>), Lit(<<"t","a","g","o","u","t">>),
        Lit(<<"L","O","T","O">>)>>), WB>>) >>

\* Phase1 extract_entities: process_patterns (lines 90-94)
process_patterns ==
    << \* \b(?:temperature|pressure|flow rate|speed|RPM|PSI|(deg)F|(deg)C)\b
      Cat(<<WB, Alt(<<Lit(<<"t","e","m","p","e","r","a","t","u","r","e">>),
        Lit(<<"p","r","e","s","s","u","r","e">>), Lit(<<"f","l","o","w"," ","r","a","t","e">>),
        Lit(<<"s","p","e","e","d">>), Lit(<<"R","P","M">>), Lit(<<"P","S","I">>),
        Lit(<<"deg","F">>), Lit(<<"deg","C">>)>>), WB>>),
      \* \b\d+\s*(?:PSI|RPM|(deg)F|(deg)C|GPM|CFM|Hz)\b
      Cat(<<WB, Plus(Cls(DigitSet)), Star(Cls(SpaceSet)), Alt(<<Lit(<<"P","S","I">>),
        Lit(<<"R","P","M">>), Lit(<<"deg","F">>), Lit(<<"deg","C">>), Lit(<<"G","P","M">>),
        Lit(<<"C","F","M">>), Lit(<<"H","z">>)>>), WB>>),
      \* \b(?:start|stop|pause|resume|emergency stop|e-stop)\b
      Cat(<<WB, Alt(<<Lit(<<"s","t","a","r","t">>), Lit(<<"s","t","o","p">>),
        Lit(<<"p","a","u","s","e">>), Lit(<<"r","e","s","u","m","e">>),
        Lit(<<"e","m","e","r","g","e","n","c","y"," ","s","t","o","p">>),
        Lit(<<"e","-","s","t","o","p">>)>>), WB>>) >>

\* Phase1 extract_entities: personnel_patterns (lines 108-111)
personnel_patterns ==
    << \* \b(?:operator|technician|supervisor|manager|engineer|maintenance)\b
      Cat(<<WB, Alt(<<Lit(<<"o","p","e","r","a","t","o","r">>),
        Lit(<<"t","e","c","h","n","i","c","i","a","n">>),
        Lit(<<"s","u","p","e","r","v","i","s","o","r">>), Lit(<<"m","a","n","a","g","e","r">>),
        Lit(<<"e","n","g","i","n","e","e","r">>),
        Lit(<<"m","a","i","n","t","e","n","a","n","c","e">>)>>), WB>>),
      \* \b(?:shift|team|crew|department)\s*(?:lead|leader|supervisor)?\b
      Cat(<<WB, Alt(<<Lit(<<"s","h","i","f","t">>), Lit(<<"t","e","a","m">>), Lit(<<"c","r","e","w">>),
        Lit(<<"d","e","p","a","r","t","m","e","n","t">>)>>), Star(Cls(SpaceSet)),
        Opt(Alt(<<Lit(<<"l","e","a","d">>), Lit(<<"l","e","a","d","e","r">>),
        Lit(<<"s","u","p","e","r","v","i","s","o","r">>)>>)), WB>>) >>

\* FixedCandidates with the matched text stripped as the scored variant strips it
FixedCandidates_Stripped(patterns, label, confidence, t) ==
    Flatten([p \in 1..Len(patterns) |->
        LET ms == FindIter(patterns[p], t, TRUE)
        IN [k \in 1..Len(ms) |->
              [text |-> Strip(Slice(t, ms[k].start, ms[k].end)), label |-> label,
               start |-> ms[k].start, end |-> ms[k].end, confidence |-> confidence]]])

\* one loop "for pattern in patterns: for match in re.finditer(...)": every match
\* becomes an entity with the confidence of its label; nothing is removed
FixedCandidates(patterns, label, confidence, t) ==
    Flatten([p \in 1..Len(patterns) |->
        LET ms == FindIter(patterns[p], t, TRUE)
        IN [k \in 1..Len(ms) |->
              Entity(Slice(t, ms[k].start, ms[k].end), label, ms[k].start, ms[k].end,
                     confidence)]])

extract_entities_Phase1(t) ==
    FixedCandidates(equipment_patterns, "EQUIPMENT", 80, t)
    \o FixedCandidates(safety_patterns, "SAFETY", 90, t)
    \o FixedCandidates(process_patterns, "PROCESS", 70, t)
    \o FixedCandidates(personnel_patterns, "PERSONNEL", 80, t)

-----------------------------------------------------------------------------
(* extract_relationships, determine_relationship_type (the same in both variants) *)

\* relationship_rules; Python's None is the string "None"
relationship_rules ==
    (<<"PERSONNEL", "EQUIPMENT">> :> "OPERATES") @@
    (<<"PERSONNEL", "SAFETY">> :> "FOLLOWS") @@
    (<<"EQUIPMENT", "PROCESS">> :> "CONTROLS") @@
    (<<"SAFETY", "PROCESS">> :> "PROTECTS") @@
    (<<"EQUIPMENT", "EQUIPMENT">> :> "CONNECTS_TO") @@
    (<<"PERSONNEL", "PERSONNEL">> :> "REPORTS_TO")

\* dict.get(key)
RulesGet(key) == IF key \in DOMAIN relationship_rules THEN relationship_rules[key] ELSE "None"

\* truth value of a str or None
Truthy(v) == v # "None" /\ v # ""

\* the table read in the order (label1, label2) only
determine_relationship_type_OneDirection(label1, label2, t) == RulesGet(<<label1, label2>>)

determine_relationship_type(label1, label2, t) ==
    LET rel_type == RulesGet(<<label1, label2>>)
    IN IF ~Truthy(rel_type) THEN RulesGet(<<label2, label1>>) ELSE rel_type

\* the pair related with the context of its source entity alone
PairRelationship_ContextOfSource(t, entity1, entity2) ==
    IF Abs(entity1.start - entity2.start) < 50
       /\ Truthy(determine_relationship_type(entity1.label, entity2.label, t))
    THEN << [source_entity |-> entity1.text,
             target_entity |-> entity2.text,
             relationship_type |-> determine_relationship_type(entity1.label, entity2.label, t),
             confidence |-> 70,
             context |-> Slice(t, Max(0, entity1.start - 25), Min(Len(t), entity1.end + 25))] >>
    ELSE <<>>

\* the body of the inner loop for the pair (entity1, entity2) (lines 184-200)
PairRelationship(t, entity1, entity2) ==
    LET distance == Abs(entity1.start - entity2.start)
    IN IF distance < 50
       THEN LET rel_type == determine_relationship_type(entity1.label, entity2.label, t)
            IN IF Truthy(rel_type)
               THEN LET context_start == Max(0, Min(entity1.start, entity2.start) - 25)
                        context_end == Min(Len(t), Max(entity1.end, entity2.end) + 25)
                    IN << [source_entity |-> entity1.text,
                           target_entity |-> entity2.text,
                           relationship_type |-> rel_type,
                           confidence |-> 70,
                           context |-> Slice(t, context_start, context_end)] >>
               ELSE <<>>
       ELSE <<>>

\* the inner loop over every other entity, those before entity1 too
extract_relationships_BothOrders(t, es) ==
    Flatten([i \in 1..Len(es) |->
        Flatten([j \in 1..Len(es) |->
            IF j = i THEN <<>> ELSE PairRelationship(t, es[i], es[j])])])

\* the loops over the pairs entity1 = es[i], entity2 = es[j], i < j (lines 181-182)
extract_relationships(t, es) ==
    Flatten([i \in 1..Len(es) |->
        Flatten([d \in 1..(Len(es) - i) |-> PairRelationship(t, es[i], es[i + d])])])

-----------------------------------------------------------------------------
(* classify_content (the same in both variants); confidences in 180ths *)

\* classify_content: category_keywords (lines 230-251), in dict order
category_keywords ==
    << [category |-> "SAFETY_MANUAL",
         keywords |-> <<<<"s","a","f","e","t","y">>,
             <<"h","a","z","a","r","d">>,
             <<"P","P","E">>,
             <<"O","S","H","A">>,
             <<"e","m","e","r","g","e","n","c","y">>,
             <<"a","c","c","i","d","e","n","t">>,
             <<"i","n","j","u","r","y">>,
             <<"l","o","c","k","o","u","t">>,
             <<"t","a","g","o","u","t">>,
             <<"c","o","n","f","i","n","e","d"," ","s","p","a","c","e">>,
             <<"c","h","e","m","i","c","a","l">>,
             <<"M","S","D","S">>>>],
       [category |-> "MAINTENANCE_PROCEDURE",
         keywords |-> <<<<"m","a","i","n","t","e","n","a","n","c","e">>,
             <<"r","e","p","a","i","r">>,
             <<"s","e","r","v","i","c","e">>,
             <<"i","n","s","p","e","c","t","i","o","n">>,
             <<"l","u","b","r","i","c","a","t","i","o","n">>,
             <<"r","e","p","l","a","c","e","m","e","n","t">>,
             <<"t","r","o","u","b","l","e","s","h","o","o","t","i","n","g">>,
             <<"p","r","e","v","e","n","t","i","v","e">>,
             <<"s","c","h","e","d","u","l","e","d">>>>],
       [category |-> "OPERATING_INSTRUCTION",
         keywords |-> <<<<"o","p","e","r","a","t","i","o","n">>,
             <<"s","t","a","r","t","u","p">>,
             <<"s","h","u","t","d","o","w","n">>,
             <<"p","r","o","c","e","d","u","r","e">>,
             <<"s","t","e","p">>,
             <<"i","n","s","t","r","u","c","t","i","o","n">>,
             <<"c","o","n","t","r","o","l">>,
             <<"m","o","n","i","t","o","r">>,
             <<"a","d","j","u","s","t">>,
             <<"s","e","t","t","i","n","g">>>>],
       [category |-> "TRAINING_MATERIAL",
         keywords |-> <<<<"t","r","a","i","n","i","n","g">>,
             <<"c","o","u","r","s","e">>,
             <<"l","e","s","s","o","n">>,
             <<"c","e","r","t","i","f","i","c","a","t","i","o","n">>,
             <<"c","o","m","p","e","t","e","n","c","y">>,
             <<"s","k","i","l","l">>,
             <<"k","n","o","w","l","e","d","g","e">>,
             <<"a","s","s","e","s","s","m","e","n","t">>,
             <<"q","u","a","l","i","f","i","c","a","t","i","o","n">>>>],
       [category |-> "TECHNICAL_SPECIFICATION",
         keywords |-> <<<<"s","p","e","c","i","f","i","c","a","t","i","o","n">>,
             <<"t","e","c","h","n","i","c","a","l">>,
             <<"d","r","a","w","i","n","g">>,
             <<"s","c","h","e","m","a","t","i","c">>,
             <<"b","l","u","e","p","r","i","n","t">>,
             <<"d","i","m","e","n","s","i","o","n">>,
             <<"t","o","l","e","r","a","n","c","e">>,
             <<"m","a","t","e","r","i","a","l">>,
             <<"s","t","a","n","d","a","r","d">>>>] >>


\* the keywords found as they are written in the catalog
MatchedKeywords_CaseSensitive(keywords, text_lower) ==
    LET found(kw) == Contains(text_lower, kw)
    IN SelectSeq(keywords, found)

\* the keywords counted once for each place of the text they occur at
MatchedKeywords_Occurrences(keywords, text_lower) ==
    LET places(kw) == {k \in 0..(Len(text_lower) - Len(kw)) :
                          SubSeq(text_lower, k + 1, k + Len(kw)) = Lower(kw)}
    IN Flatten([n \in 1..Len(keywords) |->
                  [k \in 1..Cardinality(places(keywords[n])) |-> keywords[n]]])

\* the keywords of the list found in the lower-cased text, in list order
MatchedKeywords(keywords, text_lower) ==
    LET found(kw) == Contains(text_lower, Lower(kw))
    IN SelectSeq(keywords, found)

\* matches / len(keywords) * 2 without the cap
CategoryConfidence_NoCap(matches, keywords) == (matches * 2 * 180) \div Len(keywords)

\* min(0.95, matches / len(keywords) * 2): 0.95 is 171/180, and 360 is a
\* multiple of every len(keywords) of the catalog (12, 9, 10)
CategoryConfidence(matches, keywords) ==
    Min(171, (matches * 2 * 180) \div Len(keywords))

\* the body of the loop over the categories (lines 255-268); 0.3 is 54/180
CategoryOf(entry, text_lower) ==
    LET kws == MatchedKeywords(entry.keywords, text_lower)
        matches == Len(kws)
    IN IF matches > 0
       THEN LET confidence == CategoryConfidence(matches, entry.keywords)
            IN IF confidence > 54
               THEN << [category |-> entry.category, confidence |-> confidence,
                        keywords |-> kws] >>
               ELSE <<>>
       ELSE <<>>

\* an insertion that puts a category before the categories of its confidence
RECURSIVE InsertByConfidenceDesc_TiesFirst(_, _)
InsertByConfidenceDesc_TiesFirst(sorted, c) ==
    IF Len(sorted) = 0 THEN <<c>>
    ELSE IF sorted[Len(sorted)].confidence > c.confidence THEN Append(sorted, c)
    ELSE Append(InsertByConfidenceDesc_TiesFirst(SubSeq(sorted, 1, Len(sorted) - 1), c),
                sorted[Len(sorted)])

\* list.sort(key=lambda x: x.confidence, reverse=True): stable, descending
RECURSIVE InsertByConfidenceDesc(_, _)
InsertByConfidenceDesc(sorted, c) ==
    IF Len(sorted) = 0 THEN <<c>>
    ELSE IF sorted[Len(sorted)].confidence >= c.confidence THEN Append(sorted, c)
    ELSE Append(InsertByConfidenceDesc(SubSeq(sorted, 1, Len(sorted) - 1), c),
                sorted[Len(sorted)])
RECURSIVE SortByConfidenceDesc(_)
SortByConfidenceDesc(cs) ==
    IF Len(cs) = 0 THEN <<>>
    ELSE InsertByConfidenceDesc(SortByConfidenceDesc(SubSeq(cs, 1, Len(cs) - 1)), cs[Len(cs)])

classify_content(t) ==
    LET text_lower == Lower(t)
    IN SortByConfidenceDesc(
         Flatten([k \in 1..Len(category_keywords) |->
                    CategoryOf(category_keywords[k], text_lower)]))

-----------------------------------------------------------------------------
(* extract_key_phrases; scores in tenths *)

\* PH-1 extract_key_phrases: phrase_patterns (lines 279-283)
phrase_patterns ==
    << \* \b(?:[A-Z][a-z]+\s+){1,3}[A-Z][a-z]+\b
      Cat(<<WB, Rep(Cat(<<Cls(UpperSet), Plus(Cls(LowerSet)), Plus(Cls(SpaceSet))>>), 1, 3),
        Cls(UpperSet), Plus(Cls(LowerSet)), WB>>),
      \* \b\d+\s*(?:PSI|RPM|(deg)F|(deg)C|GPM|CFM|Hz|mm|cm|inch|ft)\b
      Cat(<<WB, Plus(Cls(DigitSet)), Star(Cls(SpaceSet)), Alt(<<Lit(<<"P","S","I">>),
        Lit(<<"R","P","M">>), Lit(<<"deg","F">>), Lit(<<"deg","C">>), Lit(<<"G","P","M">>),
        Lit(<<"C","F","M">>), Lit(<<"H","z">>), Lit(<<"m","m">>), Lit(<<"c","m">>),
        Lit(<<"i","n","c","h">>), Lit(<<"f","t">>)>>), WB>>),
      \* \b[A-Z]{2,}-\d+\b
      Cat(<<WB, Rep(Cls(UpperSet), 2, -1), Lit(<<"-">>), Plus(Cls(DigitSet)), WB>>) >>

\* Phase1 extract_key_phrases: phrase_patterns (lines 235-240)
phrase_patterns_Phase1 ==
    << \* \b(?:[A-Z][a-z]+\s+){1,3}[A-Z][a-z]+\b
      Cat(<<WB, Rep(Cat(<<Cls(UpperSet), Plus(Cls(LowerSet)), Plus(Cls(SpaceSet))>>), 1, 3),
        Cls(UpperSet), Plus(Cls(LowerSet)), WB>>),
      \* \b\d+\s*(?:PSI|RPM|(deg)F|(deg)C|GPM|CFM|Hz|mm|cm|inch|ft)\b
      Cat(<<WB, Plus(Cls(DigitSet)), Star(Cls(SpaceSet)), Alt(<<Lit(<<"P","S","I">>),
        Lit(<<"R","P","M">>), Lit(<<"deg","F">>), Lit(<<"deg","C">>), Lit(<<"G","P","M">>),
        Lit(<<"C","F","M">>), Lit(<<"H","z">>), Lit(<<"m","m">>), Lit(<<"c","m">>),
        Lit(<<"i","n","c","h">>), Lit(<<"f","t">>)>>), WB>>),
      \* \b[A-Z]{2,}-\d+\b
      Cat(<<WB, Rep(Cls(UpperSet), 2, -1), Lit(<<"-">>), Plus(Cls(DigitSet)), WB>>),
      \* \b(?:step|procedure|process|method|technique)\s+\d+\b
      Cat(<<WB, Alt(<<Lit(<<"s","t","e","p">>), Lit(<<"p","r","o","c","e","d","u","r","e">>),
        Lit(<<"p","r","o","c","e","s","s">>), Lit(<<"m","e","t","h","o","d">>),
        Lit(<<"t","e","c","h","n","i","q","u","e">>)>>), Plus(Cls(SpaceSet)), Plus(Cls(DigitSet)),
        WB>>) >>


\* len(match.split()): the number of maximal runs of non-whitespace characters
WordCount(s) ==
    Cardinality({k \in 1..Len(s) : s[k] \notin SpaceSet /\ (k = 1 \/ s[k - 1] \in SpaceSet)})

\* len(match.split()) * 0.3 + (1.0 if match[0].isupper() else 0.5)
PhraseScore(m) == WordCount(m) * 3 + (IF m[1] \in UpperSet THEN 10 ELSE 5)

\* the loops over patterns and matches (lines 285-289)
PhraseMatches(patterns, t) ==
    Flatten([p \in 1..Len(patterns) |->
        LET ms == FindIter(patterns[p], t, FALSE)
        IN [k \in 1..Len(ms) |->
              LET m == Slice(t, ms[k].start, ms[k].end)
              IN [phrase |-> m, score |-> PhraseScore(m)]]])

\* an insertion that sorts by ascending score
RECURSIVE InsertByScoreDesc_Ascending(_, _)
InsertByScoreDesc_Ascending(sorted, c) ==
    IF Len(sorted) = 0 THEN <<c>>
    ELSE IF sorted[Len(sorted)].score <= c.score THEN Append(sorted, c)
    ELSE Append(InsertByScoreDesc_Ascending(SubSeq(sorted, 1, Len(sorted) - 1), c),
                sorted[Len(sorted)])

\* list.sort(key=lambda x: x[1], reverse=True): stable, descending
RECURSIVE InsertByScoreDesc(_, _)
InsertByScoreDesc(sorted, c) ==
    IF Len(sorted) = 0 THEN <<c>>
    ELSE IF sorted[Len(sorted)].score >= c.score THEN Append(sorted, c)
    ELSE Append(InsertByScoreDesc(SubSeq(sorted, 1, Len(sorted) - 1), c),
                sorted[Len(sorted)])
RECURSIVE SortByScoreDesc(_)
SortByScoreDesc(cs) ==
    IF Len(cs) = 0 THEN <<>>
    ELSE InsertByScoreDesc(SortByScoreDesc(SubSeq(cs, 1, Len(cs) - 1)), cs[Len(cs)])

\* s[:n]: the first n elements, all but the last -n for a negative n
Truncate(s, n) == SubSeq(s, 1, IF n < 0 THEN Len(s) + n ELSE Min(n, Len(s)))

KeyPhrases(patterns, t, n) ==
    Truncate(SortByScoreDesc(ListOfSet(PhraseMatches(patterns, t))), n)

extract_key_phrases(t, n) == KeyPhrases(phrase_patterns, t, n)
extract_key_phrases_Phase1(t, n) == KeyPhrases(phrase_patterns_Phase1, t, n)

-----------------------------------------------------------------------------
(* Phase1 analyze_document_structure *)

\* analyze_document_structure: list_patterns (lines 278-282)
list_patterns ==
    << \* ^\s*[-(bullet)*]\s+
      Cat(<<BOL, Star(Cls(SpaceSet)), Cls({"-", "bullet", "*"}), Plus(Cls(SpaceSet))>>),
      \* ^\s*\d+\.?\s+
      Cat(<<BOL, Star(Cls(SpaceSet)), Plus(Cls(DigitSet)), Opt(Lit(<<".">>)), Plus(Cls(SpaceSet))>>),
      \* ^\s*[a-zA-Z]\.?\s+
      Cat(<<BOL, Star(Cls(SpaceSet)), Cls(LowerSet \cup UpperSet), Opt(Lit(<<".">>)),
        Plus(Cls(SpaceSet))>>) >>

\* ^\d+\.?\s+[A-Z]
header_pattern == Cat(<<BOL, Plus(Cls(DigitSet)), Opt(Lit(<<".">>)), Plus(Cls(SpaceSet)), Cls(UpperSet)>>)
\* \s{3,}
gap_pattern == Rep(Cls(SpaceSet), 3, -1)

\* text.split("\n")
RECURSIVE Split(_, _)
Split(s, cur) ==
    IF Len(s) = 0 THEN <<cur>>
    ELSE IF Head(s) = "\n" THEN <<cur>> \o Split(Tail(s), <<>>)
    ELSE Split(Tail(s), Append(cur, Head(s)))
SplitLines(t) == Split(t, <<>>)

\* str.isupper(): a cased character, and no lowercase one
IsUpper(s) ==
    /\ \E k \in 1..Len(s) : s[k] \in UpperSet
    /\ \A k \in 1..Len(s) : s[k] \notin LowerSet

SectionsOf(lines) ==
    Flatten([i \in 1..Len(lines) |->
        LET line == Strip(lines[i])
        IN IF Len(line) > 0 /\ (IsUpper(line) \/ ReMatch(header_pattern, line))
           THEN << [title |-> line, line_number |-> i] >>
           ELSE <<>>])

\* the first of list_patterns that matches the line, 0 when none does
FirstListPattern(line) ==
    LET hits == {p \in 1..Len(list_patterns) : ReMatch(list_patterns[p], line)}
    IN IF hits = {} THEN 0 ELSE CHOOSE p \in hits : \A q \in hits : p <= q

\* the list entries with the line as it is, not trimmed
ListsOf_Untrimmed(lines) ==
    Flatten([i \in 1..Len(lines) |->
        IF FirstListPattern(lines[i]) = 0 THEN <<>>
        ELSE << [content |-> lines[i], line_number |-> i,
                 type |-> IF FirstListPattern(lines[i]) = 1 THEN "bullet" ELSE "numbered"] >>])

\* pattern.startswith(r'^\s*[-(bullet)*]'): the first of list_patterns only
ListsOf(lines) ==
    Flatten([i \in 1..Len(lines) |->
        LET p == FirstListPattern(lines[i])
        IN IF p = 0 THEN <<>>
           ELSE << [content |-> Strip(lines[i]), line_number |-> i,
                    type |-> IF p = 1 THEN "bullet" ELSE "numbered"] >>])

TablesOf(lines) ==
    Flatten([i \in 1..Len(lines) |->
        IF \/ \E k \in 1..Len(lines[i]) : lines[i][k] \in {"\t", "|"}
           \/ Len(FindIter(gap_pattern, lines[i], FALSE)) > 1
        THEN << [content |-> Strip(lines[i]), line_number |-> i] >>
        ELSE <<>>])

analyze_document_structure(t) ==
    LET lines == SplitLines(t)
    IN [sections |-> SectionsOf(lines), lists |-> ListsOf(lines),
        tables |-> TablesOf(lines), references |-> <<>>]

-----------------------------------------------------------------------------
(* The callers.  A caller holds a text and calls the components on it; a     *)
(* call is one step.  An exception ends the call with no result.             *)

\* the words joined by single spaces
RECURSIVE Join(_)
Join(ws) ==
    IF Len(ws) = 0 THEN <<>>
    ELSE IF Len(ws) = 1 THEN ws[1]
    ELSE ws[1] \o <<" ">> \o Join(Tail(ws))

SeqsUpTo(S, n) == UNION {[1..k -> S] : k \in 0..n}

\* words of the texts given to the recognizers
NerWords ==
    << <<"n","o","k","i","a">>,
       <<"i","n">>,
       <<"T","u","r","k","u"," ","U","n","i","v","e","r","s","i","t","y">>,
       <<"n","o","k","i","a"," ","T","u","r","k","u"," ","U","n","i","v","e","r","s","i","t","y">>,
       <<"N","a","t","u","r","a","l"," ","L","a","n","g","u","a","g","e"," ","P","r","o","c","e","s","s","i","n","g">>,
       <<"A","I">>,
       <<"2","0","2","4">>,
       <<"V","e","r","s","i","o","n",":"," ","1",".","0">>,
       <<"t","e","x","t"," ","e","x","t","r","a","c","t","i","o","n">>,
       <<"p","u","m","p">>,
       <<"p","a","r","t","-","1","2">>,
       <<"p","e","r","s","o","n","a","l"," ","p","r","o","t","e","c","t","i","v","e"," ","e","q","u","i","p","m","e","n","t">>,
       <<"P","P","E">> >>

MaxNerWords == 2
NerTexts == {Join([k \in DOMAIN ws |-> NerWords[ws[k]]]) : ws \in SeqsUpTo(1..Len(NerWords), MaxNerWords)}

\* words of the texts given to all components
EngineWords ==
    << <<"A","l","p","h","a"," ","B","e","t","a",",">>,
       <<"G","a","m","m","a"," ","D","e","l","t","a">>,
       <<"T","u","r","k","u"," ","U","n","i","v","e","r","s","i","t","y">>,
       <<"p","u","m","p">>,
       <<"s","a","f","e","t","y"," ","h","a","z","a","r","d">> >>

MaxEngineWords == 2
EngineTexts ==
    {Join([k \in DOMAIN ws |-> EngineWords[ws[k]]]) : ws \in SeqsUpTo(1..Len(EngineWords), MaxEngineWords)}

\* orders of set iteration told apart: hash seeds 0 .. MaxHashSeed
MaxHashSeed == 2

NoCall == [call |-> "none", result |-> <<>>]
NoStructure == [sections |-> <<>>, lists |-> <<>>, tables |-> <<>>, references |-> <<>>]

\* no upload request, no committed row, no call of chunk_text
NoRequest == [endpoint |-> "", ended |-> FALSE]
EmptyDb == [documents |-> <<>>, entities |-> <<>>, categories |-> <<>>]
NoChunker == [pc |-> ""]

StartCaller ==
    /\ pc = "start"
    /\ candidates = <<>>
    /\ entities = <<>>
    /\ relationships = <<>>
    /\ categories = <<>>
    /\ phrases = <<>>
    /\ structure = NoStructure
    /\ raised = ""
    /\ other = NoCall
    /\ badPattern = 0
    /\ threads = <<>>
    /\ request = NoRequest
    /\ db = EmptyDb
    /\ chunker = NoChunker

inputs == <<text, isNone, max_phrases, hashSeed, other, badPattern, threads, request, db,
           chunker>>

\* PH-1 extract_entities(text); re.finditer (line 81) compiles its pattern,
\* raising re.error if it cannot, and then raises TypeError on None
CallExtractEntities ==
    /\ pc = "start"
    /\ pc' = "entities"
    /\ IF isNone
       THEN /\ raised' = (IF badPattern = 1 THEN "re.error" ELSE "TypeError")
            /\ UNCHANGED <<candidates, entities>>
       ELSE IF badPattern # 0
       THEN /\ raised' = "re.error"
            /\ UNCHANGED <<candidates, entities>>
       ELSE /\ candidates' = Candidates(text)
            /\ entities' = ResolveCandidates(candidates')
            /\ UNCHANGED raised
    /\ UNCHANGED <<relationships, categories, phrases, structure>>
    /\ UNCHANGED inputs

\* Phase1 extract_entities(text); re.finditer (line 61) compiles its pattern,
\* raising re.error if it cannot, and then raises TypeError on None
CallExtractEntitiesPhase1 ==
    /\ pc = "start"
    /\ pc' = "entities_Phase1"
    /\ IF isNone
       THEN /\ raised' = (IF badPattern = 1 THEN "re.error" ELSE "TypeError")
            /\ UNCHANGED entities
       ELSE IF badPattern # 0
       THEN /\ raised' = "re.error"
            /\ UNCHANGED entities
       ELSE /\ entities' = extract_entities_Phase1(text)
            /\ UNCHANGED raised
    /\ UNCHANGED <<candidates, relationships, categories, phrases, structure>>
    /\ UNCHANGED inputs

\* extract_relationships(text, entities) on the entities the caller holds;
\* len(text) raises TypeError on None once a pair is related (line 191)
CallExtractRelationships ==
    /\ pc \in {"start", "entities", "entities_Phase1"}
    /\ raised = ""
    /\ pc' = "relationships"
    /\ IF isNone /\ \E i, j \in 1..Len(entities) :
                       /\ i < j
                       /\ Abs(entities[i].start - entities[j].start) < 50
                       /\ Truthy(determine_relationship_type(entities[i].label,
                                                             entities[j].label, text))
       THEN /\ raised' = "TypeError"
            /\ UNCHANGED relationships
       ELSE /\ relationships' = extract_relationships(text, entities)
            /\ UNCHANGED raised
    /\ UNCHANGED <<candidates, entities, categories, phrases, structure>>
    /\ UNCHANGED inputs

\* classify_content(text); None has no lower(): AttributeError (line 253)
CallClassifyContent ==
    /\ pc = "start"
    /\ pc' = "categories"
    /\ IF isNone
       THEN /\ raised' = "AttributeError"
            /\ UNCHANGED categories
       ELSE /\ categories' = classify_content(text)
            /\ UNCHANGED raised
    /\ UNCHANGED <<candidates, entities, relationships, phrases, structure>>
    /\ UNCHANGED inputs

\* PH-1 extract_key_phrases(text, max_phrases); re.findall raises TypeError on None (line 286)
CallExtractKeyPhrases ==
    /\ pc = "start"
    /\ pc' = "phrases"
    /\ IF isNone
       THEN /\ raised' = "TypeError"
            /\ UNCHANGED phrases
       ELSE /\ phrases' = extract_key_phrases(text, max_phrases)
            /\ UNCHANGED raised
    /\ UNCHANGED <<candidates, entities, relationships, categories, structure>>
    /\ UNCHANGED inputs

\* Phase1 extract_key_phrases(text, max_phrases); re.findall raises TypeError on None (line 243)
CallExtractKeyPhrasesPhase1 ==
    /\ pc = "start"
    /\ pc' = "phrases_Phase1"
    /\ IF isNone
       THEN /\ raised' = "TypeError"
            /\ UNCHANGED phrases
       ELSE /\ phrases' = extract_key_phrases_Phase1(text, max_phrases)
            /\ UNCHANGED raised
    /\ UNCHANGED <<candidates, entities, relationships, categories, structure>>
    /\ UNCHANGED inputs

\* Phase1 analyze_document_structure(text); None has no split(): AttributeError (line 266)
CallAnalyzeDocumentStructure ==
    /\ pc = "start"
    /\ pc' = "structure"
    /\ IF isNone
       THEN /\ raised' = "AttributeError"
            /\ UNCHANGED structure
       ELSE /\ structure' = analyze_document_structure(text)
            /\ UNCHANGED raised
    /\ UNCHANGED <<candidates, entities, relationships, categories, phrases>>
    /\ UNCHANGED inputs

\* The caller takes the result of a call and makes its next call on the same
\* arguments, in the same process or in another one (any hash seed); it keeps
\* what the first call of extract_entities or extract_key_phrases returned.
CallAgain ==
    /\ pc # "start"
    /\ raised = ""
    /\ other' = IF other = NoCall /\ pc \in {"entities", "phrases"}
                THEN [call |-> pc, result |-> IF pc = "entities" THEN entities ELSE phrases]
                ELSE other
    /\ hashSeed' \in 0..MaxHashSeed
    /\ pc' = "start"
    /\ candidates' = <<>>
    /\ entities' = <<>>
    /\ relationships' = <<>>
    /\ categories' = <<>>
    /\ phrases' = <<>>
    /\ structure' = NoStructure
    /\ UNCHANGED <<text, isNone, max_phrases, raised, badPattern, threads, request, db,
                   chunker>>

\* the recognizers and the relationships between the entities they return
InitNER ==
    /\ text \in NerTexts
    /\ isNone = FALSE
    /\ max_phrases = 10
    /\ hashSeed = 0
    /\ StartCaller
NextNER ==
    \/ CallExtractEntities
    \/ CallExtractEntitiesPhase1
    \/ CallExtractRelationships
SpecNER == InitNER /\ [][NextNER]_vars

\* every component, on a text or on None
Init ==
    /\ \/ isNone = FALSE /\ text \in EngineTexts
       \/ isNone = TRUE /\ text = <<>>
    /\ max_phrases \in {1, 10}
    /\ hashSeed \in 0..MaxHashSeed
    /\ StartCaller
Next ==
    \/ CallExtractEntities
    \/ CallExtractEntitiesPhase1
    \/ CallExtractRelationships
    \/ CallClassifyContent
    \/ CallExtractKeyPhrases
    \/ CallExtractKeyPhrasesPhase1
    \/ CallAnalyzeDocumentStructure
    \/ CallAgain
Spec == Init /\ [][Next]_vars

\* extract_relationships on any list of entities of a document: labels in
\* and out of the table, starts 49, 50 and 99 apart, short and long entities
MaxRelEntities == 3
RelTextLen == 160
RelText == [k \in 1..RelTextLen |-> <<"0","1","2","3","4","5","6","7","8","9">>[((k - 1) % 10) + 1]]
RelLabels == {"PERSONNEL", "EQUIPMENT", "PROCESS"}
RelStarts == {0, 49, 50, 99}
RelLengths == {1, 60}
RelEntities ==
    {Entity(Slice(RelText, s, s + n), l, s, s + n, 80) :
        l \in RelLabels, s \in RelStarts, n \in RelLengths}
InitRel ==
    /\ text = RelText
    /\ isNone = FALSE
    /\ max_phrases = 10
    /\ hashSeed = 0
    /\ pc = "start"
    /\ candidates = <<>>
    /\ entities \in SeqsUpTo(RelEntities, MaxRelEntities)
    /\ relationships = <<>>
    /\ categories = <<>>
    /\ phrases = <<>>
    /\ structure = NoStructure
    /\ raised = ""
    /\ other = NoCall
    /\ badPattern = 0
    /\ threads = <<>>
    /\ request = NoRequest
    /\ db = EmptyDb
    /\ chunker = NoChunker
NextRel == CallExtractRelationships
SpecRel == InitRel /\ [][NextRel]_vars

\* words of the texts given to the classifier: keywords of the catalog
ClsWords ==
    << <<"m","a","i","n","t","e","n","a","n","c","e"," ","r","e","p","a","i","r">>,
       <<"t","r","a","i","n","i","n","g"," ","c","o","u","r","s","e">>,
       <<"o","p","e","r","a","t","i","o","n"," ","s","t","a","r","t","u","p"," ","s","h","u","t","d","o","w","n"," ","p","r","o","c","e","d","u","r","e"," ","s","t","e","p">>,
       <<"s","a","f","e","t","y">>,
       <<"d","r","a","w","i","n","g"," ","s","c","h","e","m","a","t","i","c"," ","b","l","u","e","p","r","i","n","t"," ","d","i","m","e","n","s","i","o","n"," ","t","o","l","e","r","a","n","c","e">>,
       <<"S","a","f","e","t","y"," ","H","a","z","a","r","d">>,
       <<"P","P","E"," ","o","s","h","a"," ","E","m","e","r","g","e","n","c","y"," ","a","c","c","i","d","e","n","t">> >>

MaxClsWords == 3
ClsTexts == {Join([k \in DOMAIN ws |-> ClsWords[ws[k]]]) : ws \in SeqsUpTo(1..Len(ClsWords), MaxClsWords)}

\* the classifier alone
InitCls ==
    /\ text \in ClsTexts
    /\ isNone = FALSE
    /\ max_phrases = 10
    /\ hashSeed = 0
    /\ StartCaller
NextCls == CallClassifyContent
SpecCls == InitCls /\ [][NextCls]_vars

\* words of the texts given to the key phrase extractors: a match of each pattern
KpWords ==
    << <<"A","l","p","h","a"," ","B","e","t","a",","," ","1","0","0"," ","P","S","I">>,
       <<"G","a","m","m","a"," ","D","e","l","t","a"," ","E","p","s","i","l","o","n",".">>,
       <<"A","B","-","1","2">>,
       <<"s","t","e","p"," ","4",".">> >>

MaxKpWords == 2
KpTexts == {Join([k \in DOMAIN ws |-> KpWords[ws[k]]]) : ws \in SeqsUpTo(1..Len(KpWords), MaxKpWords)}

\* values of max_phrases: the default, small ones, none, and a negative one
KpMaxPhrases == {-1, 0, 2, 10}

\* the key phrase extractors alone
InitKP ==
    /\ text \in KpTexts
    /\ isNone = FALSE
    /\ max_phrases \in KpMaxPhrases
    /\ hashSeed \in 0..MaxHashSeed
    /\ StartCaller
NextKP ==
    \/ CallExtractKeyPhrases
    \/ CallExtractKeyPhrasesPhase1
SpecKP == InitKP /\ [][NextKP]_vars

\* A catalog in which the pattern number badPattern does not compile.
\* Importing app.extraction.knowledge runs the def statements only (the
\* patterns are literals of the body of extract_entities and nothing calls
\* re.compile), so the import and the start of the application succeed
\* whatever the catalog.
MaxBadPattern == 2
Startup ==
    /\ pc = "boot"
    /\ pc' = "start"
    /\ UNCHANGED <<candidates, entities, relationships, categories, phrases, structure, raised>>
    /\ UNCHANGED inputs
InitCatalog ==
    /\ text \in EngineTexts
    /\ isNone = FALSE
    /\ max_phrases = 10
    /\ hashSeed = 0
    /\ pc = "boot"
    /\ candidates = <<>>
    /\ entities = <<>>
    /\ relationships = <<>>
    /\ categories = <<>>
    /\ phrases = <<>>
    /\ structure = NoStructure
    /\ raised = ""
    /\ other = NoCall
    /\ badPattern \in 0..MaxBadPattern
    /\ threads = <<>>
    /\ request = NoRequest
    /\ db = EmptyDb
    /\ chunker = NoChunker
NextCatalog ==
    \/ Startup
    \/ CallExtractEntities
    \/ CallExtractEntitiesPhase1
SpecCatalog == InitCatalog /\ [][NextCatalog]_vars

\* Calls in the threads of the server. The endpoints are plain def functions,
\* which the framework runs in a thread pool: two requests run their
\* extraction calls at the same time, and a thread can be preempted between
\* any two iterations of a loop. Every name a component assigns (entities,
\* categories, phrases) is a local of the call.
Threads == {1, 2}
ConcTexts == {EngineWords[1], EngineWords[3], EngineWords[5]}
ConcCalls == {"extract_entities", "classify_content", "extract_key_phrases"}

\* the frame that holds the locals of the call of thread t
FrameOf_Global(t) == 1
FrameOf(t) == t

\* iterations of the outer loop of a component
Iterations(fn) ==
    IF fn = "extract_entities" THEN Len(entity_patterns)
    ELSE IF fn = "classify_content" THEN Len(category_keywords)
    ELSE Len(phrase_patterns)

\* what iteration k of the outer loop appends to the list of the call
Appended(fn, t, k) ==
    IF fn = "extract_entities"
    THEN Flatten([p \in 1..Len(entity_patterns[k].patterns) |->
             MatchCandidates(entity_patterns[k].label, entity_patterns[k].patterns[p], t)])
    ELSE IF fn = "classify_content" THEN CategoryOf(category_keywords[k], Lower(t))
    ELSE PhraseMatches(<<phrase_patterns[k]>>, t)

\* what the component returns from its list once the loop has ended
Returned(fn, list) ==
    IF fn = "extract_entities" THEN ResolveCandidates(list)
    ELSE IF fn = "classify_content" THEN SortByConfidenceDesc(list)
    ELSE Truncate(SortByScoreDesc(ListOfSet(list)), max_phrases)

Running(t) == threads[t].step >= 1 /\ threads[t].step <= Iterations(threads[t].fn) + 1

\* entities = [] / categories = [] / phrases = []
ThreadBegin(t) ==
    /\ threads[t].step = 0
    /\ threads' = [threads EXCEPT ![FrameOf(t)].list = <<>>, ![t].step = 1]

\* one iteration of the outer loop
ThreadIterate(t) ==
    /\ threads[t].step >= 1
    /\ threads[t].step <= Iterations(threads[t].fn)
    /\ threads' = [threads EXCEPT
                     ![FrameOf(t)].list = @ \o Appended(threads[t].fn, threads[t].text,
                                                        threads[t].step),
                     ![t].step = @ + 1,
                     ![t].interleaved = @ \/ \E u \in Threads \ {t} : Running(u)]

\* the statements after the loop, and the return
ThreadReturn(t) ==
    /\ threads[t].step = Iterations(threads[t].fn) + 1
    /\ threads' = [threads EXCEPT
                     ![t].result = Returned(threads[t].fn, threads[FrameOf(t)].list),
                     ![t].step = @ + 1]

ThreadDone(t) == threads[t].step = Iterations(threads[t].fn) + 2

InitConc ==
    /\ text = <<>>
    /\ isNone = FALSE
    /\ max_phrases = 10
    /\ hashSeed \in 0..MaxHashSeed
    /\ pc = "start"
    /\ candidates = <<>>
    /\ entities = <<>>
    /\ relationships = <<>>
    /\ categories = <<>>
    /\ phrases = <<>>
    /\ structure = NoStructure
    /\ raised = ""
    /\ other = NoCall
    /\ badPattern = 0
    /\ threads \in [Threads -> [fn : ConcCalls, text : ConcTexts, step : {0},
                                list : {<<>>}, result : {<<>>}, interleaved : {FALSE}]]
    /\ request = NoRequest
    /\ db = EmptyDb
    /\ chunker = NoChunker
NextConc ==
    \E t \in Threads :
        /\ \/ ThreadBegin(t)
           \/ ThreadIterate(t)
           \/ ThreadReturn(t)
        /\ UNCHANGED <<text, isNone, max_phrases, pc, candidates, entities, relationships,
                       categories, phrases, structure, raised, hashSeed, other, badPattern,
                       request, db, chunker>>
SpecConc == InitConc /\ [][NextConc]_vars

\* matched texts given to calculate_entity_confidence: short and long, stop
\* words, keywords of the label tests, years
ScoreTexts ==
    { <<"A","I">>,
      <<"i","n">>,
      <<"t","h","e">>,
      <<"T","h","e">>,
      <<"w","i","t","h">>,
      <<"2","0","2","4">>,
      <<"N","a","t","u","r","a","l"," ","L","a","n","g","u","a","g","e"," ","P","r","o","c","e","s","s","i","n","g">>,
      <<"T","u","r","k","u"," ","U","n","i","v","e","r","s","i","t","y">>,
      <<"p","u","m","p">>,
      <<"M","a","r","c","h"," ","2","0","2","4">>,
      <<"2","0","2","4","-","0","1","-","1","5">>,
      <<"m","a","c","h","i","n","e"," ","l","e","a","r","n","i","n","g">>,
      <<"i","n","c">>,
      <<"N","o","k","i","a"," ","C","o","r","p">>,
      <<"1","2","3","4","5">>,
      <<"v","i","s","i","o","n">> }

\* calculate_entity_confidence(text, label, full_text, start, end) for a match
\* of a pattern of some label that is the whole text
CallCalculateEntityConfidence ==
    /\ pc = "start"
    /\ pc' = "confidence"
    /\ \E l \in 1..Len(entity_patterns) :
         LET label == entity_patterns[l].label
         IN candidates' = <<Entity(text, label, 0, Len(text),
                               calculate_entity_confidence(text, label, text, 0, Len(text)))>>
    /\ UNCHANGED <<entities, relationships, categories, phrases, structure, raised>>
    /\ UNCHANGED inputs
InitScore ==
    /\ text \in ScoreTexts
    /\ isNone = FALSE
    /\ max_phrases = 10
    /\ hashSeed = 0
    /\ StartCaller
NextScore == CallCalculateEntityConfidence
SpecScore == InitScore /\ [][NextScore]_vars

\* remove_duplicate_entities and filter_overlapping_entities on any list of
\* candidates: spans that overlap, touch and coincide, two confidences, two
\* labels, and a text in two cases
MaxFilterEntities == 3
FilterText == <<"P","u","m","p"," ","V","a","l","v","e"," ","p","u","m","p"," ","m","o","t","o","r">>
FilterSpans == {<<0, 10>>, <<5, 15>>, <<10, 20>>}
FilterEntities ==
    {Entity(Slice(FilterText, sp[1], sp[2]), l, sp[1], sp[2], c) :
        sp \in FilterSpans, l \in {"EQUIPMENT", "PROCESS"}, c \in {60, 80}}
    \cup {Entity(Lower(Slice(FilterText, 0, 10)), "EQUIPMENT", 0, 10, c) : c \in {60, 80}}

\* entities = remove_duplicate_entities(entities) (line 103)
CallRemoveDuplicateEntities ==
    /\ pc = "start"
    /\ pc' = "deduped"
    /\ entities' = remove_duplicate_entities(candidates)
    /\ UNCHANGED <<candidates, relationships, categories, phrases, structure, raised>>
    /\ UNCHANGED inputs

\* entities = filter_overlapping_entities(entities) (line 106)
CallFilterOverlappingEntities ==
    /\ pc = "start"
    /\ pc' = "filtered"
    /\ entities' = filter_overlapping_entities(candidates)
    /\ UNCHANGED <<candidates, relationships, categories, phrases, structure, raised>>
    /\ UNCHANGED inputs

InitFilter ==
    /\ text = FilterText
    /\ isNone = FALSE
    /\ max_phrases = 10
    /\ hashSeed = 0
    /\ pc = "start"
    /\ candidates \in SeqsUpTo(FilterEntities, MaxFilterEntities)
    /\ entities = <<>>
    /\ relationships = <<>>
    /\ categories = <<>>
    /\ phrases = <<>>
    /\ structure = NoStructure
    /\ raised = ""
    /\ other = NoCall
    /\ badPattern = 0
    /\ threads = <<>>
    /\ request = NoRequest
    /\ db = EmptyDb
    /\ chunker = NoChunker
NextFilter ==
    \/ CallRemoveDuplicateEntities
    \/ CallFilterOverlappingEntities
SpecFilter == InitFilter /\ [][NextFilter]_vars

\* lines of the texts given to analyze_document_structure: a header that is
\* also a list item and a table row, list items, a row of columns, an empty line
StructLines ==
    << <<"1","."," ","I","N","T","R","O"," ","|"," ","A">>,
       <<"-"," ","i","t","e","m">>,
       <<" "," ","a","."," ","s","u","b">>,
       <<"H","E","A","D","E","R">>,
       <<"x"," "," "," ","y"," "," "," ","z">>,
       <<>>,
       <<"p","l","a","i","n"," ","t","e","x","t">> >>

RECURSIVE JoinLines(_)
JoinLines(ls) ==
    IF Len(ls) = 0 THEN <<>>
    ELSE IF Len(ls) = 1 THEN ls[1]
    ELSE ls[1] \o <<"\n">> \o JoinLines(Tail(ls))

MaxStructLines == 2
StructTexts ==
    {JoinLines([k \in DOMAIN ls |-> StructLines[ls[k]]]) :
        ls \in SeqsUpTo(1..Len(StructLines), MaxStructLines)}

\* analyze_document_structure alone
InitStruct ==
    /\ text \in StructTexts
    /\ isNone = FALSE
    /\ max_phrases = 10
    /\ hashSeed = 0
    /\ StartCaller
NextStruct == CallAnalyzeDocumentStructure
SpecStruct == InitStruct /\ [][NextStruct]_vars

-----------------------------------------------------------------------------
(* PH-1/app/main.py: the upload pipeline.  A request carries a file; the    *)
(* text the extractors of app/extraction/text.py read from the file is the  *)
(* caller's text (isNone: they return None).  A handler is one step: every  *)
(* commit it makes is in the step.  A response is its status code and the   *)
(* detail of the error ("" when there is none).                             *)

\* os.path.splitext(filename)[1] of a name without directories: from the last
\* dot to the end, "" when only dots precede it
Splitext(s) ==
    LET dots == {k \in 1..Len(s) : s[k] = "."}
        last == IF dots = {} THEN 0 ELSE CHOOSE k \in dots : \A j \in dots : j <= k
    IN  IF last = 0 \/ \A j \in 1..(last - 1) : s[j] = "." THEN <<>>
        ELSE SubSeq(s, last, Len(s))

SUPPORTED_TYPES ==
    << << <<".","p","d","f">>, "pdf" >>,     << <<".","d","o","c","x">>, "docx" >>,
       << <<".","t","x","t">>, "txt" >>,     << <<".","m","d">>, "txt" >>,
       << <<".","p","n","g">>, "image" >>,   << <<".","j","p","g">>, "image" >>,
       << <<".","j","p","e","g">>, "image" >>, << <<".","g","i","f">>, "image" >>,
       << <<".","b","m","p">>, "image" >>,   << <<".","t","i","f","f">>, "image" >>,
       << <<".","m","p","4">>, "video" >>,   << <<".","a","v","i">>, "video" >>,
       << <<".","m","o","v">>, "video" >>,   << <<".","m","k","v">>, "video" >> >>

MB == 1024 * 1024
MAX_FILE_SIZES ==
    [pdf |-> 50 * MB, docx |-> 25 * MB, txt |-> 10 * MB, image |-> 20 * MB, video |-> 500 * MB]

detect_file_type(filename) ==
    IF filename = <<>> THEN "unsupported"
    ELSE LET ext == Lower(Splitext(filename))
             found == {k \in 1..Len(SUPPORTED_TYPES) : SUPPORTED_TYPES[k][1] = ext}
         IN  IF found = {} THEN "unsupported"
             ELSE SUPPORTED_TYPES[CHOOSE k \in found : TRUE][2]

Ok == [status_code |-> 200, detail |-> ""]
HTTPException(status_code, detail) == [status_code |-> status_code, detail |-> detail]

\* validate_file_strict(file): Ok, or the HTTPException it raises; a size of 0
\* is a file whose size is not known
validate_file_strict(file) ==
    IF file.filename = <<>> THEN HTTPException(400, "No filename provided")
    ELSE LET filetype == detect_file_type(file.filename) IN
         IF filetype = "unsupported" THEN HTTPException(400, "Unsupported file type")
         ELSE IF file.size # 0 /\ file.size > MAX_FILE_SIZES[filetype]
         THEN HTTPException(400, "File too large")
         ELSE Ok

\* the columns of the model Document (db/models.py lines 8-19)
DocumentColumns ==
    {"id", "filename", "filetype", "status", "content", "metadata", "created_at", "updated_at"}

\* the schema DocumentCreate (schemas/document.py lines 12-17) and its fields
DocumentCreate(filename, filetype, content, metadata) ==
    [filename |-> filename, filetype |-> filetype, content |-> content, metadata |-> metadata]

\* crud.create_document(db, doc, status): the rows after its commit and the id
\* of the new row, or the exception it raises.  It reads doc.processing_result
\* (line 22) and passes document_metadata and processing_result to Document.
create_document(d, doc, status) ==
    IF ~({"filename", "filetype", "content", "metadata", "processing_result"} \subseteq DOMAIN doc)
    THEN [raised |-> "AttributeError", db |-> d, id |-> 0]
    ELSE IF ~({"filename", "filetype", "content", "document_metadata", "processing_result",
               "status"} \subseteq DocumentColumns)
    THEN [raised |-> "TypeError", db |-> d, id |-> 0]
    ELSE [raised |-> "",
          db |-> [d EXCEPT !.documents =
                      Append(@, [id |-> Len(@) + 1, filename |-> doc.filename,
                                 filetype |-> doc.filetype, content |-> doc.content,
                                 status |-> status])],
          id |-> Len(d.documents) + 1]

\* crud.create_entity(db, EntityCreate(document_id, ...)) and
\* crud.create_category(db, ContentCategoryCreate(document_id, ...)): one commit each
create_entity(d, document_id, entity) ==
    [d EXCEPT !.entities =
        Append(@, [document_id |-> document_id, text |-> entity.text, label |-> entity.label,
                   confidence |-> entity.confidence, start_position |-> entity.start,
                   end_position |-> entity.end])]
create_category(d, document_id, category) ==
    [d EXCEPT !.categories =
        Append(@, [document_id |-> document_id, category |-> category.category,
                   confidence |-> category.confidence, keywords |-> category.keywords])]

\* db_doc.status = status; db.commit()
SetStatus(d, document_id, status) ==
    [d EXCEPT !.documents =
        [k \in DOMAIN @ |-> IF @[k].id = document_id THEN [@[k] EXCEPT !.status = status]
                            ELSE @[k]]]

\* the rows after the first k entities of es are created
RECURSIVE CreateEntities(_, _, _, _)
CreateEntities(d, document_id, es, k) ==
    IF k = 0 THEN d
    ELSE create_entity(CreateEntities(d, document_id, es, k - 1), document_id, es[k])
RECURSIVE CreateCategories(_, _, _, _)
CreateCategories(d, document_id, cs, k) ==
    IF k = 0 THEN d
    ELSE create_category(CreateCategories(d, document_id, cs, k - 1), document_id, cs[k])

\* The commits of the knowledge extraction of a handler (upload_document
\* lines 165-200, upload_ui lines 348-386) on a document in d, entities being
\* extract_entities(content) and cats classify_content(content).  The commits
\* are numbered: one for each entity, one for each category and the one of the
\* status 'completed'; commit failAt raises, none when failAt = 0 or beyond
\* the last.  The except branch then commits the status 'failed'.
CommitKnowledge(d, document_id, es, cs, failAt) ==
    LET n == Len(es)
        m == Len(cs)
        done == IF failAt = 0 \/ failAt > n + m + 1 THEN n + m + 1 ELSE failAt - 1
        rows == CreateCategories(CreateEntities(d, document_id, es, Min(done, n)),
                                 document_id, cs, IF done > n THEN Min(done - n, m) ELSE 0)
    IN  IF done = n + m + 1
        THEN [raised |-> "", db |-> SetStatus(rows, document_id, "completed")]
        ELSE [raised |-> "Exception", db |-> SetStatus(rows, document_id, "failed")]
KnowledgeExtraction(d, document_id, content, failAt) ==
    CommitKnowledge(d, document_id, extract_entities(content), classify_content(content),
                    failAt)

\* the response and the rows of a handler whose knowledge extraction ended
Answer(extraction, completed, failed) ==
    [response |-> IF extraction.raised # "" THEN failed ELSE completed, db |-> extraction.db]

\* not content or len(content.strip()) < 10
NoExtractableContent(content, none) == none \/ content = <<>> \/ Len(Strip(content)) < 10

\* upload_document(file, db): the response and the rows when the request ends.
\* extractFails: the extractor of the file raises HTTPException(500).
upload_document(file, content, none, extractFails, failAt, d) ==
    LET valid == validate_file_strict(file)
        filetype == detect_file_type(file.filename)
        doc_in == DocumentCreate(file.filename, filetype, content,
                                 [content_length |-> Len(content)])
        created == create_document(d, doc_in, "processing")
        extraction == KnowledgeExtraction(created.db, created.id, content, failAt)
    IN  IF valid # Ok THEN [response |-> valid, db |-> d]
        ELSE IF filetype \notin {"pdf", "docx", "txt"}
        THEN [response |-> HTTPException(400, "Unsupported document type for knowledge extraction."),
              db |-> d]
        \* inside try (line 139): except Exception (line 204) answers every
        \* exception, the HTTPException of the try body too, with status 500
        ELSE IF extractFails
        THEN [response |-> HTTPException(500, "Document processing failed"), db |-> d]
        ELSE IF NoExtractableContent(content, none)
        THEN [response |-> HTTPException(500, "Document processing failed"), db |-> d]
        ELSE IF created.raised # ""
        THEN [response |-> HTTPException(500, "Document processing failed"), db |-> d]
        ELSE Answer(extraction, Ok, HTTPException(500, "Document processing failed"))

\* upload_ui(request, file, upload_type, db): the page is answered with status
\* 200, its result["error"] is the detail
upload_ui(file, upload_type, content, none, extractFails, failAt, d) ==
    LET valid == validate_file_strict(file)
        filetype == detect_file_type(file.filename)
        doc_in == DocumentCreate(file.filename, filetype, content,
                                 [content_length |-> Len(content)])
        created == create_document(d, doc_in, "processing")
        extraction == KnowledgeExtraction(created.db, created.id, content, failAt)
        Page(error) == [status_code |-> 200, detail |-> error]
    IN  IF valid # Ok THEN [response |-> Page("Upload processing failed"), db |-> d]
        ELSE IF upload_type = "document"
        THEN IF filetype \notin {"pdf", "docx", "txt"}
             THEN [response |-> Page("Unsupported document type."), db |-> d]
             ELSE IF extractFails
             THEN [response |-> Page("Upload processing failed"), db |-> d]
             ELSE IF NoExtractableContent(content, none)
             THEN [response |-> Page("No extractable content found in document."),
                   db |-> d]
             ELSE IF created.raised # ""
             THEN [response |-> Page("Upload processing failed"), db |-> d]
             ELSE Answer(extraction, Page(""), Page("Knowledge extraction failed"))
        ELSE [response |-> Page(""), db |-> d]

\* the files uploaded, the texts read from them
UploadFilenames ==
    { <<>>, <<"a",".","t","x","t">>, <<"a",".","M","D">>, <<"a",".","p","d","f">>,
      <<"a",".","d","o","c","x">>, <<"a",".","p","n","g">>, <<"a",".","e","x","e">> }
UploadSizes == {0, 1024, 30 * MB}
UploadTexts ==
    { <<>>, <<" "," ","\n">>, <<" ","1","2","3","4","5","6","7","8","9"," ">>,
      <<"1","2","3","4","5","6","7","8","9","0">>,
      Join(<<EngineWords[3], EngineWords[5]>>), Join(<<EngineWords[4], EngineWords[5]>>) }
MaxFailAt == 2
NoResponse == [status_code |-> 0, detail |-> ""]

UploadDocument ==
    /\ request.endpoint = "upload_document"
    /\ ~request.ended
    /\ LET r == upload_document(request.file, text, isNone, request.extractFails,
                                request.failAt, db)
       IN  /\ request' = [request EXCEPT !.ended = TRUE, !.response = r.response]
           /\ db' = r.db
    /\ UNCHANGED <<text, isNone, max_phrases, pc, candidates, entities, relationships,
                   categories, phrases, structure, raised, hashSeed, other, badPattern,
                   threads, chunker>>

UploadUi ==
    /\ request.endpoint = "upload_ui"
    /\ ~request.ended
    /\ LET r == upload_ui(request.file, request.upload_type, text, isNone,
                          request.extractFails, request.failAt, db)
       IN  /\ request' = [request EXCEPT !.ended = TRUE, !.response = r.response]
           /\ db' = r.db
    /\ UNCHANGED <<text, isNone, max_phrases, pc, candidates, entities, relationships,
                   categories, phrases, structure, raised, hashSeed, other, badPattern,
                   threads, chunker>>

InitUpload ==
    /\ text \in UploadTexts
    /\ isNone \in BOOLEAN
    /\ isNone => text = <<>>
    /\ max_phrases = 10
    /\ hashSeed = 0
    /\ pc = "start"
    /\ candidates = <<>>
    /\ entities = <<>>
    /\ relationships = <<>>
    /\ categories = <<>>
    /\ phrases = <<>>
    /\ structure = NoStructure
    /\ raised = ""
    /\ other = NoCall
    /\ badPattern = 0
    /\ threads = <<>>
    /\ \E endpoint \in {"upload_document", "upload_ui"} :
           request \in [endpoint : {endpoint},
                        file : [filename : UploadFilenames, size : UploadSizes],
                        upload_type : IF endpoint = "upload_ui"
                                      THEN {"document", "image", "video"} ELSE {""},
                        extractFails : BOOLEAN, failAt : 0..MaxFailAt,
                        ended : {FALSE}, response : {NoResponse}]
    /\ db = EmptyDb
    /\ chunker = NoChunker
NextUpload == UploadDocument \/ UploadUi
SpecUpload == InitUpload /\ [][NextUpload]_vars

-----------------------------------------------------------------------------
(* PH-1/app/utils/helpers.py: chunk_text(text, chunk_size, overlap).  An     *)
(* iteration of its while loop is one step.                                 *)

\* str.rfind(' ', lo, hi): the last place of a space in text[lo:hi], or -1
RFindSpace(t, lo, hi) ==
    LET places == {k \in lo..(Min(hi, Len(t)) - 1) : t[k + 1] = " "}
    IN IF places = {} THEN -1 ELSE CHOOSE k \in places : \A j \in places : j <= k

\* the end of the chunk that begins at start (lines 330-338)
ChunkEnd(t, chunk_size, start) ==
    LET end == Min(start + chunk_size, Len(t))
    IN IF end < Len(t)
       THEN LET boundary_search_start == Max(start, end - (chunk_size \div 10))
                word_boundary == RFindSpace(t, boundary_search_start, end)
            IN IF word_boundary > start THEN word_boundary ELSE end
       ELSE end

\* the call begins: a text that fits in one chunk is returned as one chunk
\* (lines 322-323), else the loop is entered with start = 0
ChunkTextBegin ==
    /\ chunker.pc = "start"
    /\ chunker' = IF Len(text) = 0 \/ Len(text) <= chunker.chunk_size
                  THEN [chunker EXCEPT !.pc = "done",
                            !.chunks = << [text |-> text, start |-> 0, end |-> Len(text),
                                           chunk_id |-> 0] >>]
                  ELSE [chunker EXCEPT !.pc = "loop"]
    /\ UNCHANGED <<text, isNone, max_phrases, pc, candidates, entities, relationships,
                   categories, phrases, structure, raised, hashSeed, other, badPattern,
                   threads, request, db>>

\* one iteration of while start < len(text) (lines 329-350)
ChunkTextIterate ==
    /\ chunker.pc = "loop"
    /\ chunker.start < Len(text)
    /\ LET end == ChunkEnd(text, chunker.chunk_size, chunker.start)
           chunk == Slice(text, chunker.start, end)
       IN chunker' = [chunker EXCEPT
                        !.chunks = Append(@, [text |-> chunk, start |-> chunker.start,
                                              end |-> end, chunk_id |-> chunker.chunk_id,
                                              length |-> Len(chunk)]),
                        !.chunk_id = @ + 1,
                        !.start = Max(chunker.start + 1, end - chunker.overlap)]
    /\ UNCHANGED <<text, isNone, max_phrases, pc, candidates, entities, relationships,
                   categories, phrases, structure, raised, hashSeed, other, badPattern,
                   threads, request, db>>

\* the loop ends: return chunks (line 352)
ChunkTextReturn ==
    /\ chunker.pc = "loop"
    /\ chunker.start >= Len(text)
    /\ chunker' = [chunker EXCEPT !.pc = "done"]
    /\ UNCHANGED <<text, isNone, max_phrases, pc, candidates, entities, relationships,
                   categories, phrases, structure, raised, hashSeed, other, badPattern,
                   threads, request, db>>

\* the texts chunked: the beginnings of three texts, with and without spaces
ChunkPatterns ==
    << <<"a","b","c","d","e","f","g","h","i","j","k","l","m","n","o","p">>,
       <<"a","b"," ","c","d"," ","e","f"," ","g","h"," ","i","j"," ","k">>,
       <<"a","a","a","a","a","a","a","a"," "," ","b","b","b","b","b","b">> >>
MaxChunkTextLen == 13
MaxChunkSize == 10
MaxOverlap == 3
ChunkTexts ==
    {SubSeq(ChunkPatterns[k], 1, n) : k \in 1..Len(ChunkPatterns), n \in 0..MaxChunkTextLen}

InitChunk ==
    /\ text \in ChunkTexts
    /\ isNone = FALSE
    /\ max_phrases = 10
    /\ hashSeed = 0
    /\ pc = "start"
    /\ candidates = <<>>
    /\ entities = <<>>
    /\ relationships = <<>>
    /\ categories = <<>>
    /\ phrases = <<>>
    /\ structure = NoStructure
    /\ raised = ""
    /\ other = NoCall
    /\ badPattern = 0
    /\ threads = <<>>
    /\ request = NoRequest
    /\ db = EmptyDb
    /\ chunker \in [pc : {"start"}, chunk_size : 1..MaxChunkSize, overlap : 0..MaxOverlap,
                    start : {0}, chunk_id : {0}, chunks : {<<>>}]
NextChunk == ChunkTextBegin \/ ChunkTextIterate \/ ChunkTextReturn
SpecChunk == InitChunk /\ [][NextChunk]_vars

-----------------------------------------------------------------------------
(* Properties *)

Overlap(a, b) == a.start < b.end /\ b.start < a.end

ScoredDone == pc = "entities" /\ raised = ""
FixedDone == pc = "entities_Phase1" /\ raised = ""

\* C1: the sequence the scored recognizer returns is ordered by start offset
\* and no two of its entities overlap: each entity ends at or before the
\* start of every later one.
C1_NoOverlapOrderedByStart ==
    ScoredDone =>
        \A i, j \in 1..Len(entities) :
            i < j => /\ entities[i].start <= entities[j].start
                     /\ entities[i].end <= entities[j].start

\* a candidate replaced a candidate and was replaced by an entity of the
\* result, and the result has a second entity
C1_Witness_ReplacementReplaced ==
    /\ ScoredDone
    /\ Len(entities) >= 2
    /\ \E i, j \in 1..Len(candidates), k \in 1..Len(entities) :
         LET a == candidates[i]
             b == candidates[j]
             c == entities[k]
         IN /\ a.start <= b.start /\ b.start < a.end /\ b.confidence > a.confidence
            /\ b.start <= c.start /\ c.start < b.end /\ c.confidence > b.confidence

\* C2: the fixed-confidence recognizer returns no two overlapping entities and
\* no two entities with the same (lower-cased text, start, end).
C2_FixedNoOverlapNoDuplicate ==
    FixedDone =>
        \A i, j \in 1..Len(entities) :
            i < j => /\ ~Overlap(entities[i], entities[j])
                     /\ DupKey(entities[i]) # DupKey(entities[j])

\* C3: every entity the scored recognizer returns has a confidence between
\* 0.7 and 1.0.
C3_ConfidenceBetweenThresholdAndOne ==
    ScoredDone =>
        \A k \in 1..Len(entities) :
            entities[k].confidence >= 70 /\ entities[k].confidence <= 100

\* an entity whose adjustments sum to 1.05 is returned with 1.0, and a match
\* of the acronym pattern that scored under 0.7 is no candidate
C3_Witness_ClampedAndDropped ==
    /\ ScoredDone
    /\ \E k \in 1..Len(entities) :
         /\ entities[k].confidence = 100
         /\ entities[k].label = "TECHNOLOGY"
         /\ Len(entities[k].text) > 10
         /\ entities[k].text[1] \in UpperSet
         /\ AnyIn(tech_keywords, Lower(entities[k].text))
    /\ \E m \in 1..Len(FindIter(Patterns_TECHNOLOGY[3], text, TRUE)) :
         LET span == FindIter(Patterns_TECHNOLOGY[3], text, TRUE)[m]
         IN \A k \in 1..Len(candidates) :
              candidates[k].start # span.start \/ candidates[k].end # span.end

\* C4: every entity either recognizer returns has 0 <= start < end <= len(text)
\* and its text is text[start:end].
C4_SpanIsTextOfEntity ==
    (ScoredDone \/ FixedDone) =>
        \A k \in 1..Len(entities) :
            /\ 0 <= entities[k].start
            /\ entities[k].start < entities[k].end
            /\ entities[k].end <= Len(text)
            /\ entities[k].text = Slice(text, entities[k].start, entities[k].end)

\* the scored recognizer returned an entity of several words that follows a
\* space, so its stripped text has whitespace inside and before it
C4_Witness_EntityAfterSpace ==
    /\ ScoredDone
    /\ \E k \in 1..Len(entities) :
         /\ entities[k].start > 0
         /\ text[entities[k].start] \in SpaceSet
         /\ \E n \in 1..Len(entities[k].text) : entities[k].text[n] \in SpaceSet

\* C5: a call of the scored recognizer returns the sequence that the first
\* call on the same text returned, whatever the hash seed of the process and
\* whatever was called in between.
C5_RecognizerSameResultAgain ==
    (ScoredDone /\ other.call = "entities") => entities = other.result

\* the second call, under another hash seed than every seed before it could
\* rely on, returned several entities of a text whose candidates overlap
C5_Witness_SecondCallOtherSeed ==
    /\ ScoredDone
    /\ other.call = "entities"
    /\ hashSeed # 0
    /\ Len(entities) >= 2
    /\ Len(candidates) > Len(entities)

KeyPhrasesDone == pc = "phrases" /\ raised = ""

\* C6: a call of extract_key_phrases returns the sequence that the first call
\* on the same (text, max_phrases) returned: the same pairs in the same order.
C6_KeyPhrasesSameResultAgain ==
    (KeyPhrasesDone /\ other.call = "phrases") => phrases = other.result

EmptyOrNone == isNone \/ Len(text) = 0

\* C7: on an empty text or on None every component returns an empty result
\* and raises nothing.
C7_EmptyOrNoneGivesEmptyResult ==
    (EmptyOrNone /\ pc # "start") =>
        /\ raised = ""
        /\ entities = <<>>
        /\ relationships = <<>>
        /\ categories = <<>>
        /\ phrases = <<>>
        /\ structure = NoStructure

RelationshipsDone == pc = "relationships" /\ raised = ""

\* the pair (i, j) is within the window and its labels are in the table in
\* one order or the other
RelatedPair(i, j) ==
    /\ Abs(entities[i].start - entities[j].start) < 50
    /\ \/ <<entities[i].label, entities[j].label>> \in DOMAIN relationship_rules
       \/ <<entities[j].label, entities[i].label>> \in DOMAIN relationship_rules

RelatedPairs ==
    {p \in (1..Len(entities)) \X (1..Len(entities)) : p[1] < p[2] /\ RelatedPair(p[1], p[2])}

\* C8: extract_relationships emits one relationship for each pair (i, j),
\* i before j, whose starts differ by less than 50 and whose labels are in the
\* table in either order, in the order of the pairs, and nothing else.
C8_RelationshipIffWithinWindowAndInTable ==
    RelationshipsDone =>
        /\ Len(relationships) = Cardinality(RelatedPairs)
        /\ \A p \in RelatedPairs :
             LET k == 1 + Cardinality({q \in RelatedPairs :
                                          q[1] < p[1] \/ (q[1] = p[1] /\ q[2] < p[2])})
             IN /\ relationships[k].source_entity = entities[p[1]].text
                /\ relationships[k].target_entity = entities[p[2]].text

\* of three entities, the pair 49 apart with its labels in the table in the
\* reverse order only, and extents that overlap, is the one related; the pair
\* 50 apart with labels in the table is not, and neither is the pair inside
\* the window with labels in the table in neither order
C8_Witness_WindowEdgeAndReverseOrder ==
    /\ RelationshipsDone
    /\ Len(entities) = 3
    /\ Len(relationships) = 1
    /\ \E i, j, k \in 1..3 :
         /\ i < j
         /\ Abs(entities[i].start - entities[j].start) = 49
         /\ entities[i].label = "EQUIPMENT" /\ entities[j].label = "PERSONNEL"
         /\ entities[i].end > entities[j].start /\ entities[j].end > entities[i].start
         /\ relationships[1].source_entity = entities[i].text
         /\ Abs(entities[i].start - entities[k].start) = 50
         /\ Abs(entities[j].start - entities[k].start) < 50
         /\ entities[k].label = "PROCESS"

ClassifyDone == pc = "categories" /\ raised = ""

\* the place of a category in the catalog
CatalogIndex(c) == CHOOSE k \in 1..Len(category_keywords) : category_keywords[k].category = c

\* C9: classify_content returns its categories by non-increasing confidence,
\* and categories of equal confidence in the order of the catalog.
C9_SortedByConfidenceTiesInCatalogOrder ==
    ClassifyDone =>
        \A i, j \in 1..Len(categories) :
            i < j => /\ categories[i].confidence >= categories[j].confidence
                     /\ categories[i].confidence = categories[j].confidence
                            => CatalogIndex(categories[i].category)
                                 < CatalogIndex(categories[j].category)

\* two categories of equal confidence come after a category that is later
\* in the catalog and has a higher confidence
C9_Witness_TieBehindLaterCategory ==
    /\ ClassifyDone
    /\ \E i, j, k \in 1..Len(categories) :
         /\ i < j /\ j < k
         /\ categories[i].confidence > categories[j].confidence
         /\ CatalogIndex(categories[i].category) > CatalogIndex(categories[j].category)
         /\ categories[j].confidence = categories[k].confidence

\* matches / len(keywords) * 2 of a category of the catalog on the text, in 180ths
ComputedConfidence(entry) ==
    (Len(SelectSeq(entry.keywords, LAMBDA kw : Contains(Lower(text), Lower(kw)))) * 360)
        \div Len(entry.keywords)

\* C10: every category classify_content returns has a confidence above 0.3
\* and at most 0.95, and no category that computes to 0.3 or less is returned.
C10_ConfidenceAboveThresholdAtMostCap ==
    ClassifyDone =>
        /\ \A k \in 1..Len(categories) :
             categories[k].confidence > 54 /\ categories[k].confidence <= 171
        /\ \A e \in 1..Len(category_keywords) :
             ComputedConfidence(category_keywords[e]) <= 54 =>
                 \A k \in 1..Len(categories) :
                     categories[k].category # category_keywords[e].category

\* a category that computes to more than 0.95 is returned with 0.95, and a
\* category with a keyword in the text that computes to less than 0.3 is not
\* returned
C10_Witness_CappedAndDropped ==
    /\ ClassifyDone
    /\ \E k \in 1..Len(categories) :
         /\ categories[k].confidence = 171
         /\ ComputedConfidence(category_keywords[CatalogIndex(categories[k].category)]) > 171
    /\ \E e \in 1..Len(category_keywords) :
         /\ ComputedConfidence(category_keywords[e]) > 0
         /\ ComputedConfidence(category_keywords[e]) <= 54
         /\ \A k \in 1..Len(categories) :
              categories[k].category # category_keywords[e].category

\* the catalog entry of a category
CatalogEntry(c) == category_keywords[CatalogIndex(c)]

\* the keyword occurs in the text, whatever the case of either
KeywordInText(kw) == Contains(Lower(text), Lower(kw))

\* C11: a category is returned with the confidence
\* min(0.95, matches / |keywords| * 2), matches being the number of its
\* keywords that occur in the text as substrings whatever the case, and with
\* exactly those keywords; every category whose confidence by this formula is
\* above 0.3 is returned.
C11_ConfidenceIsCappedKeywordDensity ==
    ClassifyDone =>
        /\ \A k \in 1..Len(categories) :
             LET entry == CatalogEntry(categories[k].category)
                 matches == Cardinality({n \in 1..Len(entry.keywords) :
                                            KeywordInText(entry.keywords[n])})
             IN /\ categories[k].confidence * Len(entry.keywords)
                     = Min(171 * Len(entry.keywords), matches * 360)
                /\ \A n \in 1..Len(entry.keywords) :
                     KeywordInText(entry.keywords[n])
                        <=> \E m \in 1..Len(categories[k].keywords) :
                                categories[k].keywords[m] = entry.keywords[n]
                /\ Len(categories[k].keywords) = matches
        /\ \A e \in 1..Len(category_keywords) :
             Min(171, ComputedConfidence(category_keywords[e])) > 54 =>
                 \E k \in 1..Len(categories) :
                     categories[k].category = category_keywords[e].category

\* six of the twelve keywords of SAFETY_MANUAL, PPE and OSHA among them in
\* another case than the text's, give 0.95, beside a category under the cap
C11_Witness_SixOfTwelveSafetyKeywords ==
    /\ ClassifyDone
    /\ \E k \in 1..Len(categories) :
         /\ categories[k].category = "SAFETY_MANUAL"
         /\ Len(categories[k].keywords) = 6
         /\ categories[k].confidence = 171
         /\ \E m \in 1..6 : categories[k].keywords[m] = <<"O","S","H","A">>
         /\ ~Contains(text, <<"O","S","H","A">>)
    /\ \E k \in 1..Len(categories) : categories[k].confidence < 171

AnyKeyPhrasesDone == pc \in {"phrases", "phrases_Phase1"} /\ raised = ""

\* C12: extract_key_phrases(text, max_phrases) returns at most max_phrases
\* pairs, for every text and every max_phrases.
C12_AtMostMaxPhrases ==
    AnyKeyPhrasesDone => Len(phrases) <= max_phrases

\* the (phrase, score) pairs matched in the text by the patterns of the variant called
MatchedPhrases ==
    LET ms == PhraseMatches(IF pc = "phrases" THEN phrase_patterns ELSE phrase_patterns_Phase1,
                            text)
    IN {ms[k] : k \in 1..Len(ms)}

\* C13: extract_key_phrases returns matched pairs by non-increasing score,
\* and no matched pair it leaves out has a score above a pair it returns.
C13_SortedByScoreHighestKept ==
    AnyKeyPhrasesDone =>
        /\ \A i, j \in 1..Len(phrases) : i < j => phrases[i].score >= phrases[j].score
        /\ \A k \in 1..Len(phrases) : phrases[k] \in MatchedPhrases
        /\ \A m \in MatchedPhrases :
             (\A k \in 1..Len(phrases) : phrases[k] # m) =>
                 \A k \in 1..Len(phrases) : m.score <= phrases[k].score

\* the truncation to max_phrases left out a matched pair whose score is under
\* the scores returned, the two returned scores differ, and the pair matched
\* first in the text is not the first returned
C13_Witness_TruncatedBelowReturned ==
    /\ AnyKeyPhrasesDone
    /\ max_phrases = 2
    /\ Len(phrases) = 2
    /\ phrases[1].score > phrases[2].score
    /\ \E m \in MatchedPhrases : m.score < phrases[2].score
    /\ \E k \in 1..Len(text) - 1 :
         /\ Slice(text, 0, k) \in {m.phrase : m \in MatchedPhrases}
         /\ Slice(text, 0, k) # phrases[1].phrase

\* C14: with a pattern of the catalog that does not compile, the engine does
\* not get past its startup, and no call of extract_entities ends with the
\* error of the pattern.
C14_BadPatternFailsAtStartup ==
    /\ badPattern # 0 => pc = "boot"
    /\ pc \in {"entities", "entities_Phase1"} => raised # "re.error"

\* the result of the component called alone on the text
Alone(fn, t) ==
    IF fn = "extract_entities" THEN extract_entities(t)
    ELSE IF fn = "classify_content" THEN classify_content(t)
    ELSE extract_key_phrases(t, max_phrases)

\* C15: under every interleaving of the calls of the threads, each call
\* returns what the component returns when it is called alone on its text.
C15_InterleavedCallReturnsResultAlone ==
    \A t \in DOMAIN threads :
        ThreadDone(t) => threads[t].result = Alone(threads[t].fn, threads[t].text)

\* two calls on different inputs have returned results that are not empty,
\* each after iterations made while the other call was running
C15_Witness_BothInterleavedDone ==
    /\ DOMAIN threads = Threads
    /\ \A t \in Threads :
         /\ ThreadDone(t)
         /\ threads[t].interleaved
         /\ threads[t].result # <<>>
    /\ threads[1].fn # threads[2].fn
    /\ threads[1].text # threads[2].text

ScoreDone == pc = "confidence"

\* one of the keywords is in the lower-cased text
HasKeyword(kws, t) == \E k \in 1..Len(kws) : Contains(Lower(t), kws[k])

\* 0.7, the adjustments for the length, the first character, the keywords of
\* TECHNOLOGY and ORGANIZATION and the stop words, in hundredths
ListedAdjustments(t, label) ==
    70 + (IF Len(t) > 10 THEN 10 ELSE 0) - (IF Len(t) < 4 THEN 20 ELSE 0)
       + (IF t[1] \in UpperSet THEN 10 ELSE 0)
       + (IF \/ label = "TECHNOLOGY" /\ HasKeyword(tech_keywords, t)
             \/ label = "ORGANIZATION" /\ HasKeyword(org_suffixes, t)
          THEN 15 ELSE 0)
       - (IF Lower(t) \in common_words THEN 40 ELSE 0)

\* the text begins with a word of exactly four digits
BeginsWithYear(t) ==
    /\ Len(t) >= 4
    /\ \A k \in 1..4 : t[k] \in DigitSet
    /\ Len(t) = 4 \/ t[5] \notin WordSet

\* C17: the confidence of a candidate is 0.7 with the listed adjustments
\* (length, first character uppercase, TECHNOLOGY or ORGANIZATION keyword,
\* stop word) clamped to [0, 1], and nothing else for any label.
C17_ConfidenceIsListedAdjustments ==
    ScoreDone =>
        candidates[1].confidence
            = Max(0, Min(100, ListedAdjustments(candidates[1].text, candidates[1].label)))

\* C17 as the code has it: a DATE candidate that begins with a four-digit
\* word gets 0.1 more before the clamp.
C17_ConfidenceIsListedAdjustmentsAndYear ==
    ScoreDone =>
        candidates[1].confidence
            = Max(0, Min(100, ListedAdjustments(candidates[1].text, candidates[1].label)
                              + (IF candidates[1].label = "DATE"
                                    /\ BeginsWithYear(candidates[1].text)
                                 THEN 10 ELSE 0)))

\* a DATE candidate that begins with a year scored 0.1 above the listed adjustments
C17_Witness_DateBeginningWithYear ==
    /\ ScoreDone
    /\ candidates[1].label = "DATE"
    /\ BeginsWithYear(candidates[1].text)
    /\ candidates[1].confidence
         = ListedAdjustments(candidates[1].text, candidates[1].label) + 10

FilteredDone == pc = "filtered"
DedupedDone == pc = "deduped"

\* of two candidates, the one that comes first by start, and for equal
\* starts first in the list
EarlierOfTwo ==
    IF candidates[2].start < candidates[1].start THEN candidates[2] ELSE candidates[1]
LaterOfTwo ==
    IF candidates[2].start < candidates[1].start THEN candidates[1] ELSE candidates[2]

\* C16: of two candidates of which the later starts before the earlier ends,
\* overlap resolution keeps the later only if its confidence is strictly
\* greater, and the earlier otherwise; two candidates that do not overlap are
\* both kept.
C16_OverlapKeepsStrictlyHigherConfidence ==
    (FilteredDone /\ Len(candidates) = 2) =>
        IF LaterOfTwo.start < EarlierOfTwo.end
        THEN IF LaterOfTwo.confidence > EarlierOfTwo.confidence
             THEN entities = <<LaterOfTwo>>
             ELSE entities = <<EarlierOfTwo>>
        ELSE entities = <<EarlierOfTwo, LaterOfTwo>>

\* candidates [0,10) with 0.6 and [5,15) with 0.8 gave [5,15) with 0.8 only
C16_Witness_HigherConfidenceReplaces ==
    /\ FilteredDone
    /\ Len(candidates) = 2
    /\ candidates[1].start = 0 /\ candidates[1].end = 10 /\ candidates[1].confidence = 60
    /\ candidates[2].start = 5 /\ candidates[2].end = 15 /\ candidates[2].confidence = 80
    /\ entities = <<candidates[2]>>

\* the (lower-cased text, start, end) of a candidate
Triple(e) == <<Lower(e.text), e.start, e.end>>

\* the places of the candidates that have no candidate of their triple before them
FirstOccurrences ==
    {i \in 1..Len(candidates) : \A j \in 1..(i - 1) : Triple(candidates[j]) # Triple(candidates[i])}

\* C18: remove_duplicate_entities returns, in the order of the input, the
\* first candidate of each (lower-cased text, start, end): no triple twice,
\* every triple of the input once.
C18_FirstOfEachTripleInOrder ==
    DedupedDone =>
        /\ Len(entities) = Cardinality(FirstOccurrences)
        /\ \A i \in FirstOccurrences :
             entities[Cardinality({j \in FirstOccurrences : j <= i})] = candidates[i]
        /\ \A m, n \in 1..Len(entities) : m < n => Triple(entities[m]) # Triple(entities[n])
        /\ \A i \in 1..Len(candidates) :
             \E m \in 1..Len(entities) : Triple(entities[m]) = Triple(candidates[i])

\* a candidate was removed whose triple is the triple of an earlier candidate
\* of another label and another case, which was kept, and a candidate of a
\* different triple follows
C18_Witness_LaterDuplicateRemoved ==
    /\ DedupedDone
    /\ Len(candidates) = 3
    /\ Len(entities) = 2
    /\ Triple(candidates[1]) = Triple(candidates[2])
    /\ candidates[1].label # candidates[2].label
    /\ candidates[1].text # candidates[2].text
    /\ entities = <<candidates[1], candidates[3]>>

\* C19: candidates none of which starts before another one ends, adjacent
\* ones included, are all kept by overlap resolution, whatever their
\* confidences.
C19_AdjacentCandidatesBothKept ==
    (FilteredDone /\ \A i, j \in 1..Len(candidates) :
                        i # j => ~Overlap(candidates[i], candidates[j])) =>
        /\ Len(entities) = Len(candidates)
        /\ \A i \in 1..Len(candidates) :
             \E m \in 1..Len(entities) : entities[m] = candidates[i]

\* a candidate of confidence 0.6 and a candidate of confidence 0.8 that starts
\* where it ends, given in the other order, are both returned
C19_Witness_AdjacentPairKept ==
    /\ FilteredDone
    /\ Len(candidates) = 2
    /\ candidates[2].end = candidates[1].start
    /\ candidates[2].confidence < candidates[1].confidence
    /\ entities = <<candidates[2], candidates[1]>>

\* the pair of entities that relationship number k is emitted for
PairOfRelationship(k) ==
    CHOOSE p \in RelatedPairs :
        k = 1 + Cardinality({q \in RelatedPairs :
                                q[1] < p[1] \/ (q[1] = p[1] /\ q[2] < p[2])})

\* the entry of the table for the labels of the pair, in one order or the other
TableType(p) ==
    LET l1 == entities[p[1]].label
        l2 == entities[p[2]].label
    IN IF <<l1, l2>> \in DOMAIN relationship_rules
       THEN relationship_rules[<<l1, l2>>] ELSE relationship_rules[<<l2, l1>>]

ContextStart(p) == Max(0, Min(entities[p[1]].start, entities[p[2]].start) - 25)
ContextEnd(p) == Min(Len(text), Max(entities[p[1]].end, entities[p[2]].end) + 25)

\* C20: every relationship has confidence 0.7, the type the table gives for
\* the labels of its pair, and the context text[max(0, min(start_i, start_j)
\* - 25) : min(len(text), max(end_i, end_j) + 25)], which covers the spans of
\* both entities.
C20_RelationshipTypeConfidenceContext ==
    (RelationshipsDone /\ Len(relationships) = Cardinality(RelatedPairs)) =>
        \A k \in 1..Len(relationships) :
            LET p == PairOfRelationship(k)
            IN /\ relationships[k].confidence = 70
               /\ relationships[k].relationship_type = TableType(p)
               /\ relationships[k].relationship_type # "None"
               /\ relationships[k].context = Slice(text, ContextStart(p), ContextEnd(p))
               /\ Len(relationships[k].context) = ContextEnd(p) - ContextStart(p)
               /\ \A n \in {p[1], p[2]} :
                    /\ ContextStart(p) <= entities[n].start
                    /\ entities[n].end <= ContextEnd(p)

\* a relationship of a short source and a long target that ends near the end
\* of the text: its context begins 25 before the source and is cut at the end
\* of the text, and its type is found under the labels in the reverse order
C20_Witness_ContextCutAtTextEnd ==
    /\ RelationshipsDone
    /\ Len(relationships) = 1
    /\ Len(entities) = 2
    /\ entities[1].start >= 25
    /\ entities[1].start < entities[2].start
    /\ entities[1].end < entities[2].start
    /\ entities[2].end + 25 > Len(text)
    /\ <<entities[1].label, entities[2].label>> \notin DOMAIN relationship_rules
    /\ Len(relationships[1].context) = Len(text) - (entities[1].start - 25)

\* the sequence holds the same phrase at two places with two scores
SamePhraseTwoScores(ps) ==
    \E i, j \in 1..Len(ps) : i # j /\ ps[i].phrase = ps[j].phrase /\ ps[i].score # ps[j].score

\* C21: some text makes extract_key_phrases return the same phrase twice
\* with two different scores.
C21_SomeTextGivesPhraseWithTwoScores ==
    AnyKeyPhrasesDone =>
        \E t \in KpTexts :
            \/ SamePhraseTwoScores(extract_key_phrases(t, 10))
            \/ SamePhraseTwoScores(extract_key_phrases_Phase1(t, 10))

\* C21 as the code has it: the score is computed from the matched phrase
\* alone, so matched pairs of the same phrase have the same score, and
\* extract_key_phrases returns no phrase twice.
C21_NoPhraseTwice ==
    AnyKeyPhrasesDone =>
        /\ \A m, n \in MatchedPhrases : m.phrase = n.phrase => m.score = n.score
        /\ \A i, j \in 1..Len(phrases) : i # j => phrases[i].phrase # phrases[j].phrase

\* a phrase matched at two places of the text is returned once, beside
\* another phrase
C21_Witness_RepeatedPhraseReturnedOnce ==
    /\ AnyKeyPhrasesDone
    /\ max_phrases = 10
    /\ Len(phrases) >= 2
    /\ \E a, b \in 0..Len(text), c, d \in 0..Len(text) :
         /\ a < b /\ b < c /\ c < d
         /\ Slice(text, a, b) = Slice(text, c, d)
         /\ Slice(text, a, b) = phrases[1].phrase

StructureDone == pc = "structure" /\ raised = ""

\* the entries have line numbers of the text, strictly increasing
IncreasingLineNumbers(es) ==
    /\ \A k \in 1..Len(es) : es[k].line_number >= 1 /\ es[k].line_number <= Len(SplitLines(text))
    /\ \A i, j \in 1..Len(es) : i < j => es[i].line_number < es[j].line_number

\* the line numbers of the entries
LineNumbers(es) == {es[k].line_number : k \in 1..Len(es)}

\* C22: every entry of sections, lists and tables has the 1-based number of
\* its line and the trimmed line; each list is in increasing order of line
\* number, so a line gives at most one entry to lists; a line is in sections
\* and in tables by its own tests, whether it is in lists or not.
C22_DetectionsByLineTrimmedInOrder ==
    StructureDone =>
        LET lines == SplitLines(text)
        IN /\ IncreasingLineNumbers(structure.sections)
           /\ IncreasingLineNumbers(structure.lists)
           /\ IncreasingLineNumbers(structure.tables)
           /\ \A k \in 1..Len(structure.sections) :
                structure.sections[k].title = Strip(lines[structure.sections[k].line_number])
           /\ \A k \in 1..Len(structure.lists) :
                structure.lists[k].content = Strip(lines[structure.lists[k].line_number])
           /\ \A k \in 1..Len(structure.tables) :
                structure.tables[k].content = Strip(lines[structure.tables[k].line_number])
           /\ \A n \in 1..Len(lines) :
                /\ n \in LineNumbers(structure.sections)
                     <=> /\ Len(Strip(lines[n])) > 0
                         /\ IsUpper(Strip(lines[n])) \/ ReMatch(header_pattern, Strip(lines[n]))
                /\ n \in LineNumbers(structure.tables)
                     <=> \/ \E k \in 1..Len(lines[n]) : lines[n][k] \in {"\t", "|"}
                         \/ Len(FindIter(gap_pattern, lines[n], FALSE)) > 1

\* the second line of the text is in sections, in lists and in tables, and
\* the first line is an indented list item recorded without its indentation
C22_Witness_LineInAllThree ==
    /\ StructureDone
    /\ 2 \in LineNumbers(structure.sections)
    /\ 2 \in LineNumbers(structure.lists)
    /\ 2 \in LineNumbers(structure.tables)
    /\ Len(structure.lists) = 2
    /\ structure.lists[1].line_number = 1
    /\ text[1] \in SpaceSet
    /\ structure.lists[1].content[1] \notin SpaceSet


\* the request to the endpoint has ended
UploadEnded(endpoint) == request.endpoint = endpoint /\ request.ended

\* the file is one the document pipeline accepts, and its text was read
SupportedDocument ==
    /\ request.file.filename # <<>>
    /\ detect_file_type(request.file.filename) \in {"pdf", "docx", "txt"}
    /\ request.file.size <= MAX_FILE_SIZES[detect_file_type(request.file.filename)]
    /\ ~request.extractFails

\* C23: upload_document answers a supported document whose extracted content
\* is empty or has fewer than 10 characters after trimming with status 400,
\* and creates no document record for it.
C23_ShortContentRejectedWith400 ==
    (UploadEnded("upload_document") /\ SupportedDocument
        /\ (isNone \/ Len(Strip(text)) < 10))
    => /\ request.response.status_code = 400
       /\ db.documents = <<>>


\* C24: every candidate that passed the threshold and is absent from the
\* sequence the scored recognizer returns overlaps at least one entity of that
\* sequence: no candidate is lost to a candidate that was itself replaced.
C24_DiscardedOverlapsKept ==
    ScoredDone =>
        \A i \in 1..Len(candidates) :
            (\A k \in 1..Len(entities) : entities[k] # candidates[i])
            => \E k \in 1..Len(entities) : Overlap(candidates[i], entities[k])


\* a text shorter than 4 characters to which none of the label tests of
\* calculate_entity_confidence adds anything
ShortUnboosted(t, label) ==
    /\ Len(t) < 4
    /\ ~(label = "TECHNOLOGY" /\ HasKeyword(tech_keywords, t))
    /\ ~(label = "ORGANIZATION" /\ HasKeyword(org_suffixes, t))
    /\ ~(label = "DATE" /\ BeginsWithYear(t))

Acronyms == { <<"a","i">>, <<"m","l">>, <<"n","l","p">>, <<"a","p","i">>, <<"o","c","r">> }

\* the matches of the catalog patterns in the text: label, trimmed text, span
CatalogMatches ==
    UNION { UNION { { [label |-> entity_patterns[l].label,
                       text |-> Strip(Slice(text, m.start, m.end)),
                       start |-> m.start, end |-> m.end] :
                      m \in { FindIter(entity_patterns[l].patterns[p], text, TRUE)[k] :
                              k \in 1..Len(FindIter(entity_patterns[l].patterns[p], text, TRUE)) } } :
                    p \in 1..Len(entity_patterns[l].patterns) } :
            l \in 1..Len(entity_patterns) }

\* C25: a match shorter than 4 characters with no label boost scores at most
\* 0.6 and is neither a candidate nor an entity of the scored recognizer; no
\* TECHNOLOGY entity is one of the acronyms AI, ML, NLP, API, OCR.
C25_ShortUnboostedNeverEmitted ==
    ScoredDone =>
        /\ \A m \in CatalogMatches :
               (Len(m.text) >= 2 /\ ShortUnboosted(m.text, m.label))
               => /\ calculate_entity_confidence(m.text, m.label, text, m.start, m.end) <= 60
                  /\ \A k \in 1..Len(candidates) :
                         ~(candidates[k].label = m.label /\ candidates[k].start = m.start
                           /\ candidates[k].end = m.end)
        /\ \A k \in 1..Len(candidates) :
               ~ShortUnboosted(candidates[k].text, candidates[k].label)
        /\ \A k \in 1..Len(entities) :
               /\ ~ShortUnboosted(entities[k].text, entities[k].label)
               /\ entities[k].label = "TECHNOLOGY" => Lower(entities[k].text) \notin Acronyms

\* the acronym pattern matched AI in a text of which another entity is returned
C25_Witness_AcronymMatchedNotReturned ==
    /\ ScoredDone
    /\ entities # <<>>
    /\ \E m \in CatalogMatches :
         /\ m.label = "TECHNOLOGY"
         /\ m.text = <<"A","I">>


\* the places of the catalog entry's keywords that occur in the text
KeywordsInText(entry) == {n \in 1..Len(entry.keywords) : KeywordInText(entry.keywords[n])}

\* the places of the text a keyword occurs at
KeywordPlaces(kw) ==
    {k \in 0..(Len(text) - Len(kw)) : SubSeq(Lower(text), k + 1, k + Len(kw)) = Lower(kw)}

\* C26: the keyword sets of the five categories have 12, 9, 10, 9 and 9
\* keywords; classify_content returns a category if and only if at least two
\* distinct keywords of it occur in the text, and the text written twice gets
\* the confidences of the text: repeating keywords changes nothing.
C26_CategoryIffTwoDistinctKeywords ==
    ClassifyDone =>
        /\ [e \in 1..Len(category_keywords) |-> Len(category_keywords[e].keywords)]
               = <<12, 9, 10, 9, 9>>
        /\ \A e \in 1..Len(category_keywords) :
               (\E k \in 1..Len(categories) :
                    categories[k].category = category_keywords[e].category)
               <=> Cardinality(KeywordsInText(category_keywords[e])) >= 2
        /\ classify_content(Join(<<text, text>>)) = categories

\* one keyword of SAFETY_MANUAL occurs twice and no other of its keywords: the
\* category is not returned, while a category with two keywords is
C26_Witness_RepeatedKeywordNotReturned ==
    /\ ClassifyDone
    /\ Cardinality(KeywordsInText(category_keywords[1])) = 1
    /\ \E n \in KeywordsInText(category_keywords[1]) :
           Cardinality(KeywordPlaces(category_keywords[1].keywords[n])) >= 2
    /\ \A k \in 1..Len(categories) : categories[k].category # "SAFETY_MANUAL"
    /\ \E k \in 1..Len(categories) : Len(categories[k].keywords) = 2


\* the pairs of places of the entities, the first before the second
PairsOfPlaces == {p \in (1..Len(entities)) \X (1..Len(entities)) : p[1] < p[2]}

\* the place of the pair p among the pairs S in lexicographic order
PlaceAmong(p, S) ==
    1 + Cardinality({q \in S : q[1] < p[1] \/ (q[1] = p[1] /\ q[2] < p[2])})

\* C27: the relationships are those of distinct pairs of places (i, j), i < j,
\* in lexicographic order of the pairs; the source of each is the text of the
\* entity at i and the target the text of the entity at j, also when the table
\* has the labels in the order (label of j, label of i) only.
C27_OnePerPairSourceIsEarlier ==
    RelationshipsDone =>
        \E S \in SUBSET PairsOfPlaces :
            /\ Cardinality(S) = Len(relationships)
            /\ \A p \in S :
                 LET r == relationships[PlaceAmong(p, S)]
                 IN /\ r.source_entity = entities[p[1]].text
                    /\ r.target_entity = entities[p[2]].text
                    /\ RelatedPair(p[1], p[2])
                    /\ r.relationship_type = TableType(p)

\* an EQUIPMENT entity before a PERSONNEL entity is the source of an OPERATES
\* relationship, and another relationship follows it
C27_Witness_EquipmentSourceOfOperates ==
    /\ RelationshipsDone
    /\ Len(relationships) >= 2
    /\ Len(entities) >= 2
    /\ entities[1].label = "EQUIPMENT"
    /\ entities[2].label = "PERSONNEL"
    /\ entities[1].text # entities[2].text
    /\ relationships[1].relationship_type = "OPERATES"
    /\ relationships[1].source_entity = entities[1].text
    /\ relationships[1].target_entity = entities[2].text


\* the request is one the document pipeline handles
DocumentRequest ==
    \/ request.endpoint = "upload_document"
    \/ request.endpoint = "upload_ui" /\ request.upload_type = "document"

\* the text read from the file has 10 characters or more after trimming
ExtractableContent == ~isNone /\ Len(Strip(text)) >= 10

\* C28: when the handler of a document with extractable content has ended,
\* the document has a record; its status is 'completed' if the extraction and
\* every commit succeeded and 'failed' otherwise, and no record is left with
\* the status 'processing'.
C28_RecordCompletedOrFailed ==
    (request.ended /\ DocumentRequest /\ SupportedDocument /\ ExtractableContent)
    => /\ Len(db.documents) = 1
       /\ \A k \in 1..Len(db.documents) :
              /\ db.documents[k].status \in {"completed", "failed"}
              /\ request.failAt = 0 => db.documents[k].status = "completed"


ChunkTextDone == chunker.pc = "done"

\* C30: for a text longer than chunk_size the loop of chunk_text makes at most
\* len(text) iterations, and the chunks returned have the chunk_ids 0, 1, ...,
\* are at most chunk_size long, cover every offset of the text, and end at
\* strictly increasing offsets, the last one alone at len(text).
C30_ChunksCoverWithIncreasingEnds ==
    /\ chunker.pc = "loop" => chunker.chunk_id <= Len(text)
    /\ (ChunkTextDone /\ Len(text) > chunker.chunk_size) =>
           LET chunks == chunker.chunks
           IN /\ \A k \in 1..Len(chunks) :
                    /\ chunks[k].chunk_id = k - 1
                    /\ chunks[k].end - chunks[k].start <= chunker.chunk_size
                    /\ chunks[k].text = Slice(text, chunks[k].start, chunks[k].end)
              /\ \A o \in 0..(Len(text) - 1) :
                    \E k \in 1..Len(chunks) : chunks[k].start <= o /\ o < chunks[k].end
              /\ \A k \in 1..(Len(chunks) - 1) : chunks[k].end < chunks[k + 1].end
              /\ chunks[Len(chunks)].end = Len(text)

=============================================================================
